---- MODULE Spec2Model ----
(***************************************************************************)
(* A model of the sevenquiz lobby engine: one lobby held by the registry,  *)
(* the lobby middleware (internal/middlewares/lobby.go), the connection    *)
(* handler (internal/handlers/handlers.go and its request handlers) and    *)
(* the Lobby/Player methods they call (package quiz).                      *)
(*                                                                         *)
(* Granularity: every call of a Lobby, Player or registry method takes and *)
(* releases that object's lock, so every such call is one atomic step of   *)
(* the task that makes it.  Computation local to a task, and the write of  *)
(* an error reply that follows a failed check, belong to the step of the   *)
(* check.  Broadcast holds the lobby's read lock while it writes to every  *)
(* registered connection and waits for all writes, so it is one step.      *)
(*                                                                         *)
(* Usernames, quiz names and passwords are numbers: 0 is the empty string, *)
(* and the order of the numbers is the order sort.Strings gives the names. *)
(***************************************************************************)
EXTENDS Integers, Naturals, Sequences, FiniteSets, TLC

\* ------------------------------------------------------------------ bounds
\* connections (upgrade requests) that clients make in a run
MaxConns == 3
\* distinct valid usernames clients use
MaxUsers == 2
\* client events of a run: requests sent and connections closed by clients
MaxEvents == 3
\* the lobby's capacity when it is limited (LobbyOptions.MaxPlayers > 0)
MaxCap == 1

\* the clock stops here (seconds)
MaxTime == 900
\* calls of lobbies.Register in a run
MaxRegisters == 2

Conns == 1..MaxConns
Users == 1..MaxUsers
\* "" as a username, an owner, a quiz name or a password
Empty == 0

\* ------------------------------------------------------- program constants
\* api.HTTPErrorCode
MissingURLQueryHTTPCode == 101
InternalServerErrorHTTPCode == 102
InvalidTokenErrorHTTPCode == 103
InvalidTokenClaimHTTPCode == 104
UnauthorizedErrorHTTPCode == 105
\* api.WebsocketErrorCode
InvalidRequestCode == 201
LobbyNotFoundCode == 202
TooManyPlayersCode == 203
PlayerAlreadyRegisteredCode == 204
UsernameAlreadyExistsCode == 205
InvalidInputCode == 207
UnauthorizedErrorCode == 209
PlayerNotFoundErrorCode == 210
QuizNotFoundErrorCode == 211
\* net/http status codes
StatusSwitchingProtocols == 101
StatusBadRequest == 400
StatusUnauthorized == 401
StatusForbidden == 403
StatusInternalServerError == 500

\* LobbyState
LobbyStateCreated == "created"
LobbyStateRegister == "register"
LobbyStateQuiz == "quiz"
LobbyStateAnswers == "answers"
LobbyStateEnded == "ended"

\* the id of the lobby whose fields, connections and tasks the model follows
LobbyID == "ABCDE"
\* the id of a lobby whose clients are outside the model
OtherID == "FGHIJ"
\* the ids newLobbyID draws
IDs == {LobbyID, OtherID}
\* the registry's entry for a lobby that was registered under LobbyID after the
\* lobby the model follows was deleted, while tasks of that lobby still run
LaterLobby == "ABCDE, registered later"
\* lobbies.Register: retries := 50
Retries == 50
\* lobbies.Register: opts.MaxPlayers = 25
DefaultMaxPlayers == 25
\* lobbies.Register: opts.RegisterTimeout = 15 * time.Minute, in seconds
DefaultRegisterTimeout == 15 * 60
\* LobbyOptions.JWTSalt, the same for every lobby of a server
JWTSalt == "salt"
\* the names of the quizzes the lobby was created with (LobbyOptions.Quizzes)
Quizzes == {1, 2}
\* a quiz name no lobby knows
UnknownQuiz == Cardinality(Quizzes) + 1
\* the questions of every quiz
NumQuestions == 1
\* len(quiz.Questions): the second quiz is one question longer than the first
QuestionsOf(q) == IF q = 2 THEN NumQuestions + 1 ELSE NumQuestions

VARIABLES
    lobbies,     \* registry: the ids in lobbies.lobbies
    state,       \* Lobby.state
    owner,       \* Lobby.owner
    maxPlayers,  \* Lobby.maxPlayers
    password,    \* Lobby.password
    quiz,        \* Lobby.quiz (its name)
    question,    \* Lobby.question: 0 is nil, i + 1 is question i
    players,     \* Lobby.players: conn -> player; NilPlayer for a nil *Player
    doneCh,      \* Lobby.doneCh is closed
    conn,        \* per connection: "none", "open" or "closed" (websocket.Conn)
    http,        \* per connection: the HTTP response of its upgrade request
    pc,          \* per connection: where its handler task stands
    pwd,         \* per connection: the query parameter p of its request
    req,         \* per connection: the request its handler is serving
    loc,         \* per connection: the local variables of its handler
    out,         \* per connection: the messages written to it, in order
    sched,       \* the quiz scheduler tasks spawned so far, in order
    nevents,     \* requests sent so far
    jwtKey,      \* Lobby.jwtKey
    panicked,    \* a task panicked: close of closed channel (Lobby.Close)
    reg,         \* the call of lobbies.Register under way, or what the last one returned
    sup,         \* the supervisor task of the lobby (lobbies.lobbyTimeout)
    now,         \* the clock (time.Now), in seconds
    prior,       \* the tokens minted by earlier lobbies of the same id
    rev,         \* the review of the recorded answers, once the questions are over
    lim,         \* the rate.Limiter of the LobbyHandler and its clock
    locks        \* where each task stands in the locking of the method it runs

vars == <<lobbies, state, owner, maxPlayers, password, quiz, question, players,
          doneCh, conn, http, pc, pwd, req, loc, out, sched, nevents,
          jwtKey, panicked, reg, sup, now, prior, rev, lim, locks>>

\* the review and the limiter
sideVars == <<rev, lim, locks>>
\* the scheduler tasks, the review and the limiter
schedVars == <<sched, sideVars>>

\* the tasks of the registry and the clock
regTasks == <<reg, sup, now, prior>>
\* the registry and its tasks
registryVars == <<lobbies, regTasks>>
\* the fields of a Lobby that lobbies.Register sets and nothing changes
fixedVars == <<maxPlayers, jwtKey>>
\* what Lobby.Close writes besides the connections
doneVars == <<doneCh, panicked>>

lobbyVars == <<state, owner, fixedVars, password, quiz, question, players, doneVars>>

\* what the handlers of the connections own
handlerVars == <<http, pc, pwd, req, loc, out>>

\* ------------------------------------------------------------------ locks
\* the tasks that call the locking methods: the handlers of two connections,
\* the supervisor of the lobby and the scheduler of its quiz
Tasks == {"handler 1", "handler 2", "supervisor", "scheduler"}
\* no task is inside a locking method
NoLocks == [t \in Tasks |-> [op |-> "none", at |-> 0]]

\* ----------------------------------------------------------- rate.Limiter
\* Limiter.limit and Limiter.window (in ticks of the limiter's clock)
limit == 2
window == 2
\* the limiter's clock stops here, and so many calls are made
MaxClock == 4
MaxCalls == 4
\* the connections whose readRequest calls the limiter
Callers == 1..2

\* what a call of the limiter returned (id is its number among the calls);
\* no call was made yet
NoCall == [id |-> 0, op |-> "none", by |-> 0, ok |-> FALSE, n |-> 0, err |-> "", blocked |-> FALSE]

\* rate.NewLimiter and the bookkeeping of its calls: the clock, the goroutine
\* blocked in Wait (0 is none), when it called and when its timer fires, the
\* last call that returned, and the history the limiter would have if only
\* caller 1 had ever called it (same clock, same calls of caller 1)
NewLimiter ==
    [now |-> 0, history |-> <<>>, waiter |-> 0, since |-> 0, due |-> 0, calls |-> 0,
     last |-> NoCall, alone |-> <<>>, differ |-> FALSE]

\* a slide that drops the records that are exactly window old as well
slideAt(h, t) == SelectSeq(h, LAMBDA x : x > t - window)
\* Limiter.slide: the records before now - window are dropped from the front,
\* up to the first record that is not before it
slide(h, t) ==
    LET k == CHOOSE k \in 0..Len(h) :
                 /\ \A j \in 1..k : h[j] < t - window
                 /\ (k = Len(h) \/ ~(h[k + 1] < t - window))
    IN SubSeq(h, k + 1, Len(h))

\* Limiter.Allow on history h at time t: its result and the history it leaves
AllowOn(h, t) ==
    LET s == slide(h, t)
    IN IF Len(s) >= limit
       THEN [ok |-> FALSE, history |-> s]
       ELSE [ok |-> TRUE, history |-> Append(s, t)]

\* a timer that fires as soon as the oldest record is written
nextNow(s) == s[1]
\* Limiter.Wait: next := history[0].Add(l.window)
next(s) == s[1] + window

\* Limiter.Wait on history h at time t, up to its select: it returns at once
\* (free) or its timer is set to fire at due
WaitOn(h, t) ==
    IF Len(h) < limit
    THEN [free |-> TRUE, due |-> 0]
    ELSE LET s == slide(h, t)
         IN IF Len(s) < limit \/ Len(s) = 0
            THEN [free |-> TRUE, due |-> 0]
            ELSE [free |-> FALSE, due |-> next(s)]

\* what a step of the limiter leaves alone
lobbySide == <<registryVars, lobbyVars, handlerVars, conn, sched, rev, locks, nevents>>

\* Limiter.Allow, called by the readRequest of connection a. The mutex is
\* held by a goroutine blocked in Wait until that call returns.
Allow(a) ==
    /\ lim.waiter = 0
    /\ lim.calls < MaxCalls
    /\ LET r == AllowOn(lim.history, lim.now)
           o == AllowOn(lim.alone, lim.now)
       IN lim' = [lim EXCEPT !.history = r.history,
                             !.calls = @ + 1,
                             !.last = [NoCall EXCEPT !.id = lim.calls + 1, !.op = "Allow", !.by = a,
                                                     !.ok = r.ok],
                             !.alone = IF a = 1 /\ ~lim.differ THEN o.history ELSE @,
                             !.differ = @ \/ (a = 1 /\ r.ok # o.ok)]
    /\ UNCHANGED lobbySide

\* Limiter.Slots
Slots(a) ==
    /\ lim.waiter = 0
    /\ lim.calls < MaxCalls
    /\ lim' = [lim EXCEPT !.calls = @ + 1,
                          !.last = [NoCall EXCEPT !.id = lim.calls + 1, !.op = "Slots", !.by = a,
                                                  !.n = limit - Len(slide(lim.history, lim.now))]]
    /\ UNCHANGED lobbySide

\* Limiter.Wait up to its select: it returns nil at once, or blocks with the
\* mutex held
WaitCall(a) ==
    /\ lim.waiter = 0
    /\ lim.calls < MaxCalls
    /\ LET r == WaitOn(lim.history, lim.now)
           o == WaitOn(lim.alone, lim.now)
       IN lim' = [lim EXCEPT !.calls = @ + 1,
                             !.waiter = IF r.free THEN 0 ELSE a,
                             !.since = lim.now,
                             !.due = r.due,
                             !.last = IF r.free
                                      THEN [NoCall EXCEPT !.id = lim.calls + 1, !.op = "Wait", !.by = a,
                                                           !.err = "nil"]
                                      ELSE @,
                             !.differ = @ \/ (a = 1 /\ r # o)]
    /\ UNCHANGED lobbySide

\* Limiter.Wait: case <-l.clock.After(wait); the time of the request is read
\* once the timer has fired and appended to l.history
WaitFire ==
    /\ lim.waiter # 0
    /\ lim.now >= lim.due
    /\ lim' = [lim EXCEPT !.history = Append(@, lim.now),
                          !.waiter = 0,
                          !.last = [NoCall EXCEPT !.id = lim.calls, !.op = "Wait", !.by = lim.waiter, !.err = "nil",
                                                  !.blocked = TRUE],
                          !.alone = IF lim.waiter = 1 /\ ~lim.differ
                                    THEN Append(@, lim.now) ELSE @]
    /\ UNCHANGED lobbySide

\* Limiter.Wait: case <-ctx.Done()
WaitCancel ==
    /\ lim.waiter # 0
    /\ lim' = [lim EXCEPT !.waiter = 0,
                          !.last = [NoCall EXCEPT !.id = lim.calls, !.op = "Wait", !.by = lim.waiter, !.err = "ctx",
                                                  !.blocked = TRUE]]
    /\ UNCHANGED lobbySide

\* the limiter's clock advances
LimTick ==
    /\ lim.now < MaxClock
    /\ lim' = [lim EXCEPT !.now = @ + 1]
    /\ UNCHANGED lobbySide

\* a nil *Player: the slot of a connection that did not register
NilPlayer == [username |-> Empty, alive |-> FALSE, answers |-> {}]
NewPlayer(u) == [username |-> u, alive |-> TRUE, answers |-> {}]
NoHTTP == [status |-> 0, code |-> 0]
\* a handler's locals: the username of the player it captured, the player list
\* and the quiz or question it read
NoLocals == [user |-> Empty, list |-> <<>>, q |-> 0]
\* the review has not begun: where the reviewing task stands, the answer under
\* review (question, connection), the decisions taken so far in order, the
\* score of each player (Player.score), and the iteration over one player's
\* answers that the task has in progress (Player.AllAnswers): the player, the
\* pairs yielded, the map as it was at the first pair, and whether a later
\* pair was yielded from a map that had changed since
NoReview ==
    [pc |-> "idle", cur |-> <<0, 0>>, log |-> <<>>, score |-> [c \in Conns |-> 0],
     iter |-> [pc |-> "idle", of |-> 0, yielded |-> {}, first |-> {}, dirty |-> FALSE]]
NoReq == [type |-> "none", user |-> Empty, quiz |-> Empty, pw |-> Empty]

\* -------------------------------------------------------- Lobby (read side)
numConns == Cardinality(DOMAIN players)

IsFull == maxPlayers >= 0 /\ numConns >= maxPlayers

\* a gate that compares p with the password even when none is set
CheckPasswordAlwaysCompares(p) == p = password

\* Lobby.CheckPassword
CheckPassword(p) == IF password = Empty THEN TRUE ELSE p = password

\* the connections whose player has this username
getPlayer(u) == {c \in DOMAIN players : players[c] # NilPlayer /\ players[c].username = u}

\* the usernames of the live players (a Go slice: one entry per player)
LiveConns == {c \in DOMAIN players : players[c] # NilPlayer /\ players[c].alive}

RECURSIVE SortedNames(_)
SortedNames(cs) ==
    IF cs = {} THEN <<>>
    ELSE LET m == CHOOSE c \in cs : \A d \in cs : players[c].username <= players[d].username
         IN <<players[m].username>> \o SortedNames(cs \ {m})

GetPlayerList == SortedNames(LiveConns)

\* allPlayers(registeredOnly): the connections a range over it yields
allPlayers(registeredOnly) ==
    {c \in DOMAIN players : registeredOnly => players[c] # NilPlayer}

\* ------------------------------------------------------------- connections
\* one message written to a connection; by and cause say which task wrote it
Msg(type, user, action, by, cause) ==
    [type |-> type, user |-> user, action |-> action, by |-> by, cause |-> cause]

\* wsjson.Write(ctx, conn, m): a write to a closed connection fails
WriteTo(o, c, m) == [o EXCEPT ![c] = IF conn[c] = "open" THEN Append(@, m) ELSE @]

\* Lobby.Broadcast: the message to every registered connection
Broadcast(o, m) ==
    [d \in Conns |-> IF d \in allPlayers(TRUE) /\ conn[d] = "open"
                     THEN Append(o[d], m) ELSE o[d]]

\* WriteWebsocketError with an api.ErrorData[api.WebsocketErrorCode]
ErrorMsg(code, by, cause) == Msg("error", code, "", by, cause)

\* --------------------------------------------------------------- HTTP errors
\* errorCodeHTTPStatusCode
errorCodeHTTPStatusCode(code) ==
    CASE code = MissingURLQueryHTTPCode -> StatusBadRequest
      [] code = InternalServerErrorHTTPCode -> StatusInternalServerError
      [] code = InvalidTokenErrorHTTPCode -> StatusForbidden
      [] code = InvalidTokenClaimHTTPCode -> StatusForbidden
      [] code = UnauthorizedErrorHTTPCode -> StatusUnauthorized
      [] OTHER -> StatusInternalServerError

\* the error constructors: the code type of the api.ErrorData they return
UnauthorizedError == [kind |-> "http", code |-> UnauthorizedErrorHTTPCode]
LobbyNotFoundError == [kind |-> "websocket", code |-> LobbyNotFoundCode]
TooManyPlayersError == [kind |-> "websocket", code |-> TooManyPlayersCode]

\* WriteHTTPError: errors.As matches only an api.ErrorData[api.HTTPErrorCode]
WriteHTTPError(err) ==
    IF err.kind = "http"
    THEN [status |-> errorCodeHTTPStatusCode(err.code), code |-> err.code]
    ELSE [status |-> StatusInternalServerError, code |-> InternalServerErrorHTTPCode]

\* -------------------------------------------------------------------- tokens
\* newLobbyTokenKey: hex(secret || id || created.Unix()).  An id has five
\* characters, so with one secret two keys are equal exactly when the id and
\* the second of creation are.
newLobbyTokenKey(secret, id, created) == <<secret, id, created>>

\* Lobby.NewToken: the claims, signed (HS256) with the lobby's key
NewToken(username) ==
    [alg |-> "HS256", lobbyId |-> LobbyID, username |-> username, key |-> jwtKey]

NoClaims == [lobbyId |-> "", username |-> Empty]

\* jwtKeyFunc: token.Method.(*jwt.SigningMethodHMAC)
HMACMethods == {"HS256", "HS384", "HS512"}

\* a check that does not compare the lobbyId claim
CheckTokenAnyLobby(token) ==
    IF token.alg \notin HMACMethods \/ token.key # jwtKey
    THEN [ok |-> FALSE, claims |-> NoClaims]
    ELSE [ok |-> TRUE, claims |-> [lobbyId |-> token.lobbyId, username |-> token.username]]

\* Lobby.CheckToken: jwt.Parse with jwtKeyFunc (the method is HMAC and the
\* signature was made with l.jwtKey), then the lobbyId claim is l.id
CheckToken(token) ==
    IF token.alg \notin HMACMethods \/ token.key # jwtKey
    THEN [ok |-> FALSE, claims |-> NoClaims]
    ELSE IF token.lobbyId # LobbyID
    THEN [ok |-> FALSE, claims |-> NoClaims]
    ELSE [ok |-> TRUE, claims |-> [lobbyId |-> token.lobbyId, username |-> token.username]]

\* api.Response[api.StartResponseData]: the start message with its token
StartMsg(token, by) ==
    [type |-> "start", user |-> token.username, action |-> "", by |-> by,
     cause |-> "start", token |-> token]

\* the RegisterTimeout a lobby runs with
RegisterTimeoutNoDefault(rt) == rt

\* lobbies.Register: if opts.RegisterTimeout == 0 { 15 * time.Minute }
RegisterTimeout(rt) == IF rt = 0 THEN DefaultRegisterTimeout ELSE rt

\* lobbies.Register: if opts.MaxPlayers == 0 { 25 }
MaxPlayersOf(mp) == IF mp = 0 THEN DefaultMaxPlayers ELSE mp

\* no call of lobbies.Register is under way
IdleReg ==
    [pc |-> "idle", id |-> "", key |-> <<>>, retries |-> 0, mp |-> 0, pw |-> Empty,
     opt |-> 0, rt |-> 0, res |-> "none", calls |-> 0]

\* the registry lock is held across steps only by lobbies.Register
Locked == reg.pc \in {"loop", "exit"}

\* ---------------------------------------------------------------------- Init
Passwords == {1}

\* the registry after lobbies.Register has registered its first lobby, with
\* opts.RegisterTimeout = rt, and no client has come yet
Registered(rt) ==
    /\ lobbies = {LobbyID}
    /\ state = LobbyStateCreated
    /\ owner = Empty
    /\ maxPlayers \in {-1, MaxCap}
    /\ password \in {Empty} \cup Passwords
    /\ quiz = 1
    /\ question = 0
    /\ players = [c \in {} |-> NilPlayer]
    /\ doneCh = FALSE
    /\ conn = [c \in Conns |-> "none"]
    /\ http = [c \in Conns |-> NoHTTP]
    /\ pc = [c \in Conns |-> "idle"]
    /\ pwd = [c \in Conns |-> Empty]
    /\ req = [c \in Conns |-> NoReq]
    /\ loc = [c \in Conns |-> NoLocals]
    /\ out = [c \in Conns |-> <<>>]
    /\ sched = <<>>
    /\ rev = NoReview
    /\ lim = NewLimiter
    /\ locks = NoLocks
    /\ nevents = 0
    /\ jwtKey = newLobbyTokenKey(JWTSalt, LobbyID, 0)
    /\ panicked = FALSE
    /\ reg = [IdleReg EXCEPT !.id = LobbyID, !.opt = rt, !.rt = RegisterTimeout(rt),
                             !.res = "ok", !.calls = 1]
    /\ sup = [pc |-> "wait", deadline |-> RegisterTimeout(rt)]
    /\ now = 0
    /\ prior = {}

\* the lobby runs with the default timeout
Init == Registered(0)

\* ------------------------------------------------------------------- clients
\* a handler that answers the HTTP request with an error and returns
Refuse(c, err) ==
    /\ http' = [http EXCEPT ![c] = WriteHTTPError(err)]
    /\ pc' = [pc EXCEPT ![c] = "done"]

\* A client requests GET /lobby/{id}?p=<p> (connections are numbered in the
\* order they are requested), and NewLobby looks the lobby up: lobbies.Get(id)
Dial(c, p) ==
    /\ pc[c] = "idle"
    /\ ~Locked
    /\ \A d \in Conns : d < c => pc[d] # "idle"
    /\ IF LobbyID \in lobbies
       THEN /\ pc' = [pc EXCEPT ![c] = "mw_pwd"]
            /\ pwd' = [pwd EXCEPT ![c] = p]
            /\ UNCHANGED http
       ELSE Refuse(c, LobbyNotFoundError) /\ UNCHANGED pwd
    /\ UNCHANGED <<registryVars, lobbyVars, conn, req, loc, out, schedVars, nevents>>

\* a request of the API: its type and the fields of its data
Request(t, u, q, p) == [type |-> t, user |-> u, quiz |-> q, pw |-> p]

Requests ==
    {Request(t, Empty, Empty, Empty) : t \in {"lobby", "start", "answer", "review"}}
    \cup {Request("register", u, Empty, Empty) : u \in Users \cup {Empty}}
    \cup {Request("kick", u, Empty, Empty) : u \in Users}
    \cup {Request("configure", Empty, q, Empty) : q \in {2, UnknownQuiz}}
    \cup {Request("configure", Empty, Empty, p) : p \in Passwords}

\* the client closes its connection once its request is served, or the ping
\* task closes it (CloseNow)
ClientClose(c) ==
    /\ pc[c] = "read"
    /\ conn[c] = "open"
    /\ nevents < MaxEvents
    /\ nevents' = nevents + 1
    /\ conn' = [conn EXCEPT ![c] = "closed"]
    /\ UNCHANGED <<registryVars, lobbyVars, http, pc, pwd, req, loc, out, schedVars>>

\* ---------------------------------------------------------------- middleware
\* NewLobby: lobby.CheckPassword(pwd)
MwCheckPassword(c) ==
    /\ pc[c] = "mw_pwd"
    /\ IF CheckPassword(pwd[c])
       THEN pc' = [pc EXCEPT ![c] = "mw_state"] /\ UNCHANGED http
       ELSE Refuse(c, UnauthorizedError)
    /\ pwd' = [pwd EXCEPT ![c] = Empty]
    /\ UNCHANGED <<registryVars, lobbyVars, conn, req, loc, out, schedVars, nevents>>

\* NewLobby: switch lobby.State()
MwState(c) ==
    /\ pc[c] = "mw_state"
    /\ pc' = [pc EXCEPT ![c] = IF state = LobbyStateRegister THEN "mw_full" ELSE "sv_created"]
    /\ UNCHANGED <<registryVars, lobbyVars, conn, http, pwd, req, loc, out, schedVars, nevents>>

\* NewLobby: case LobbyStateRegister: lobby.IsFull()
MwIsFull(c) ==
    /\ pc[c] = "mw_full"
    /\ IF IsFull
       THEN Refuse(c, TooManyPlayersError)
       ELSE pc' = [pc EXCEPT ![c] = "sv_created"] /\ UNCHANGED http
    /\ UNCHANGED <<registryVars, lobbyVars, conn, pwd, req, loc, out, schedVars, nevents>>

\* ----------------------------------------------------------------- ServeHTTP
\* the handler of connection c moves on to l with the locals v; its request and
\* its locals end when it returns to read the next request or returns for good
GotoWith(c, l, v) ==
    /\ pc' = [pc EXCEPT ![c] = l]
    /\ req' = IF l \in {"read", "done"} THEN [req EXCEPT ![c] = NoReq] ELSE req
    /\ loc' = [loc EXCEPT ![c] = IF l \in {"read", "done"} THEN NoLocals ELSE v]

Goto(c, l) == GotoWith(c, l, loc[c])

\* ServeHTTP: lobby.State() == LobbyStateCreated && lobby.NumConns() == 0.
\* No slot is ever added while the state is Created, so the two reads give
\* the same result taken together or apart.
SvCreated(c) ==
    /\ pc[c] = "sv_created"
    /\ Goto(c, IF state = LobbyStateCreated /\ numConns = 0 THEN "sv_set" ELSE "sv_accept")
    /\ UNCHANGED <<registryVars, lobbyVars, conn, http, pwd, out, schedVars, nevents>>

\* ServeHTTP: lobby.SetState(quiz.LobbyStateRegister)
SvSetRegister(c) ==
    /\ pc[c] = "sv_set"
    /\ state' = LobbyStateRegister
    /\ Goto(c, "sv_accept")
    /\ UNCHANGED <<registryVars, owner, fixedVars, password, quiz, question, players, doneVars, conn, http, pwd, out, schedVars, nevents>>

\* ServeHTTP: websocket.Accept (clients send a valid handshake), then
\* switch lobby.State()
SvAccept(c) ==
    /\ pc[c] = "sv_accept"
    /\ conn' = [conn EXCEPT ![c] = "open"]
    /\ http' = [http EXCEPT ![c] = [status |-> StatusSwitchingProtocols, code |-> 0]]
    /\ Goto(c, IF state = LobbyStateRegister THEN "sv_add" ELSE "read")
    /\ UNCHANGED <<registryVars, lobbyVars, pwd, out, schedVars, nevents>>

\* Lobby.AddConn
AddConn(c) == [d \in DOMAIN players \cup {c} |-> IF d = c THEN NilPlayer ELSE players[d]]

\* ServeHTTP: case LobbyStateRegister: lobby.AddConn(conn), then the banner
\* (handleLobbyRequest with banner = TRUE), which only this handler can write to
\* its connection while it is unregistered
SvAddConn(c) ==
    /\ pc[c] = "sv_add"
    /\ players' = AddConn(c)
    /\ out' = WriteTo(out, c, Msg("lobby", Empty, "", c, "banner"))
    /\ Goto(c, "read")
    /\ UNCHANGED <<registryVars, state, owner, fixedVars, password, quiz, question, doneVars,
                   conn, http, pwd, schedVars, nevents>>

\* handleLobbyRequest: the reply to a lobby request
HandleLobbyRequest(c) ==
    /\ pc[c] = "lobby"
    /\ out' = WriteTo(out, c, Msg("lobby", Empty, "", c, "lobby"))
    /\ Goto(c, "read")
    /\ UNCHANGED <<registryVars, lobbyVars, conn, http, pwd, schedVars, nevents>>

\* handleRegisterState, handleQuizState, handleReviewState: the handler of a
\* request type, "" when the state's switch has no case for it
RequestHandler(st, type) ==
    CASE st = LobbyStateRegister /\ type = "lobby" -> "lobby"
      [] st = LobbyStateRegister /\ type = "register" -> "reg_conn"
      [] st = LobbyStateRegister /\ type = "kick" -> "kick_conn"
      [] st = LobbyStateRegister /\ type = "configure" -> "cfg_conn"
      [] st = LobbyStateRegister /\ type = "start" -> "start_conn"
      [] st = LobbyStateQuiz /\ type = "answer" -> "ans_question"
      [] st = LobbyStateAnswers /\ type = "review" -> "rev_conn"
      [] OTHER -> ""

\* A client sends one well-formed request, the handler's pending wsjson.Read
\* returns it, and ServeHTTP switches on lobby.State(); a state with a handler
\* answers a request type it does not know with InvalidRequestError
Send(c, r) ==
    /\ pc[c] = "read"
    /\ conn[c] = "open"
    /\ nevents < MaxEvents
    /\ nevents' = nevents + 1
    /\ LET h == RequestHandler(state, r.type)
       IN IF h # ""
          THEN /\ pc' = [pc EXCEPT ![c] = h]
               /\ req' = [req EXCEPT ![c] = r]
               /\ UNCHANGED out
          ELSE /\ UNCHANGED <<pc, req>>
               /\ out' = IF state \in {LobbyStateRegister, LobbyStateQuiz, LobbyStateAnswers}
                         THEN WriteTo(out, c, ErrorMsg(InvalidRequestCode, c, r.type))
                         ELSE out
    /\ UNCHANGED <<registryVars, lobbyVars, conn, http, pwd, loc, schedVars>>

\* a handler's owner check, first half: lobby.GetPlayerByConn(conn); an
\* unregistered connection is answered with UnauthorizedRequestError
OwnerCheckConn(c, from, to) ==
    /\ pc[c] = from
    /\ IF c \in DOMAIN players /\ players[c] # NilPlayer
       THEN /\ GotoWith(c, to, [loc[c] EXCEPT !.user = players[c].username])
            /\ UNCHANGED out
       ELSE /\ out' = WriteTo(out, c, ErrorMsg(UnauthorizedErrorCode, c, req[c].type))
            /\ Goto(c, "read")
           
    /\ UNCHANGED <<registryVars, lobbyVars, conn, http, pwd, schedVars, nevents>>

\* an owner check that lets every registered player through
OwnerCheckOwnerLax(c, from, to) ==
    /\ pc[c] = from
    /\ Goto(c, to)
    /\ UNCHANGED <<registryVars, lobbyVars, conn, http, pwd, out, schedVars, nevents>>

\* a handler's owner check, second half: client.Username() != lobby.Owner()
OwnerCheckOwner(c, from, to) ==
    /\ pc[c] = from
    /\ IF loc[c].user = owner
       THEN Goto(c, to) /\ UNCHANGED out
       ELSE /\ out' = WriteTo(out, c, ErrorMsg(UnauthorizedErrorCode, c, req[c].type))
            /\ Goto(c, "read")
    /\ UNCHANGED <<registryVars, lobbyVars, conn, http, pwd, schedVars, nevents>>

\* ------------------------------------------------------ handleRegisterRequest
\* a handler that does not look whether the connection is registered
RegisterConnAgain(c) ==
    /\ pc[c] = "reg_conn"
    /\ IF req[c].user = Empty
       THEN /\ out' = WriteTo(out, c, ErrorMsg(InvalidInputCode, c, "register"))
            /\ Goto(c, "read")
       ELSE Goto(c, "reg_exists") /\ UNCHANGED out
    /\ UNCHANGED <<registryVars, lobbyVars, conn, http, pwd, schedVars, nevents>>

\* lobby.GetPlayerByConn(conn), then validateUsername(req.Username); the
\* username Empty stands for the usernames validateUsername rejects
RegisterConn(c) ==
    /\ pc[c] = "reg_conn"
    /\ IF c \in DOMAIN players /\ players[c] # NilPlayer
       THEN /\ out' = WriteTo(out, c, ErrorMsg(PlayerAlreadyRegisteredCode, c, "register"))
            /\ Goto(c, "read")
       ELSE IF req[c].user = Empty
       THEN /\ out' = WriteTo(out, c, ErrorMsg(InvalidInputCode, c, "register"))
            /\ Goto(c, "read")
       ELSE Goto(c, "reg_exists") /\ UNCHANGED out
    /\ UNCHANGED <<registryVars, lobbyVars, conn, http, pwd, schedVars, nevents>>

\* lobby.GetPlayer(req.Username)
RegisterExists(c) ==
    /\ pc[c] = "reg_exists"
    /\ IF getPlayer(req[c].user) # {}
       THEN /\ out' = WriteTo(out, c, ErrorMsg(UsernameAlreadyExistsCode, c, "register"))
            /\ Goto(c, "read")
       ELSE Goto(c, "reg_add") /\ UNCHANGED out
    /\ UNCHANGED <<registryVars, lobbyVars, conn, http, pwd, schedVars, nevents>>

\* Lobby.AddPlayerWithConn
AddPlayerWithConn(c, u) ==
    [d \in DOMAIN players \cup {c} |-> IF d = c THEN NewPlayer(u) ELSE players[d]]

\* lobby.AddPlayerWithConn(conn, req.Username)
RegisterAdd(c) ==
    /\ pc[c] = "reg_add"
    /\ players' = AddPlayerWithConn(c, req[c].user)
    /\ Goto(c, "reg_reply")
    /\ UNCHANGED <<registryVars, state, owner, fixedVars, password, quiz, question, doneVars, conn, http, pwd, out, schedVars, nevents>>

\* wsjson.Write(ctx, conn, res) of the register response
RegisterReply(c) ==
    /\ pc[c] = "reg_reply"
    /\ out' = WriteTo(out, c, Msg("register", Empty, "", c, "register"))
    /\ Goto(c, "reg_join")
    /\ UNCHANGED <<registryVars, lobbyVars, conn, http, pwd, schedVars, nevents>>

\* lobby.BroadcastPlayerUpdate(ctx, req.Username, "join")
RegisterJoin(c) ==
    /\ pc[c] = "reg_join"
    /\ out' = Broadcast(out, Msg("playerUpdate", req[c].user, "join", c, "register"))
    /\ Goto(c, "reg_owner")
    /\ UNCHANGED <<registryVars, lobbyVars, conn, http, pwd, schedVars, nevents>>

\* a registration that takes the ownership whatever the owner is
RegisterOwnerAlways(c) ==
    /\ pc[c] = "reg_owner"
    /\ Goto(c, "reg_setowner")
    /\ UNCHANGED <<registryVars, lobbyVars, conn, http, pwd, out, schedVars, nevents>>

\* if lobby.Owner() == ""
RegisterOwner(c) ==
    /\ pc[c] = "reg_owner"
    /\ Goto(c, IF owner = Empty THEN "reg_setowner" ELSE "read")
    /\ UNCHANGED <<registryVars, lobbyVars, conn, http, pwd, out, schedVars, nevents>>

\* lobby.SetOwner(req.Username)
RegisterSetOwner(c) ==
    /\ pc[c] = "reg_setowner"
    /\ owner' = req[c].user
    /\ Goto(c, "reg_newowner")
    /\ UNCHANGED <<registryVars, state, fixedVars, password, quiz, question, players, doneVars, conn, http, pwd, out, schedVars, nevents>>

\* lobby.BroadcastPlayerUpdate(ctx, req.Username, "new owner")
RegisterNewOwner(c) ==
    /\ pc[c] = "reg_newowner"
    /\ out' = Broadcast(out, Msg("playerUpdate", req[c].user, "new owner", c, "register"))
    /\ Goto(c, "read")
    /\ UNCHANGED <<registryVars, lobbyVars, conn, http, pwd, schedVars, nevents>>

\* ---------------------------------------------------------- handleKickRequest
KickConn(c) == OwnerCheckConn(c, "kick_conn", "kick_owner")

KickOwner(c) == OwnerCheckOwner(c, "kick_owner", "kick_delete")

\* Lobby.deleteConn and Lobby.deletePlayer: delete(l.players, conn)
deleteConn(d) == [e \in DOMAIN players \ {d} |-> players[e]]

\* lobby.DeletePlayer(req.Username): the player getPlayer finds (the range over
\* the map may find any player of that name) is closed and removed
KickDelete(c) ==
    /\ pc[c] = "kick_delete"
    /\ IF getPlayer(req[c].user) = {}
       THEN /\ out' = WriteTo(out, c, ErrorMsg(PlayerNotFoundErrorCode, c, "kick"))
            /\ Goto(c, "read")
            /\ UNCHANGED <<players, conn>>
       ELSE /\ \E d \in getPlayer(req[c].user) :
                 /\ conn' = [conn EXCEPT ![d] = "closed"]
                 /\ players' = deleteConn(d)
            /\ Goto(c, "kick_reply")
            /\ UNCHANGED out
    /\ UNCHANGED <<registryVars, state, owner, fixedVars, password, quiz, question, doneVars, http, pwd, schedVars, nevents>>

\* wsjson.Write(ctx, conn, res) of the kick response
KickReply(c) ==
    /\ pc[c] = "kick_reply"
    /\ out' = WriteTo(out, c, Msg("kick", Empty, "", c, "kick"))
    /\ Goto(c, "kick_bcast")
    /\ UNCHANGED <<registryVars, lobbyVars, conn, http, pwd, schedVars, nevents>>

\* lobby.BroadcastPlayerUpdate(ctx, req.Username, "kick")
KickBroadcast(c) ==
    /\ pc[c] = "kick_bcast"
    /\ out' = Broadcast(out, Msg("playerUpdate", req[c].user, "kick", c, "kick"))
    /\ Goto(c, "read")
    /\ UNCHANGED <<registryVars, lobbyVars, conn, http, pwd, schedVars, nevents>>

\* ----------------------------------------------------- handleConfigureRequest
ConfigureConn(c) == OwnerCheckConn(c, "cfg_conn", "cfg_owner")

\* the owner check, then the branch on req.Quiz != "" and req.Password != ""
ConfigureOwner(c) ==
    OwnerCheckOwner(c, "cfg_owner",
                    IF req[c].quiz # Empty THEN "cfg_load"
                    ELSE IF req[c].pw # Empty THEN "cfg_setpw" ELSE "cfg_reply")

\* a LoadQuiz that finds every quiz
ConfigureLoadQuizAny(c) ==
    /\ pc[c] = "cfg_load"
    /\ Goto(c, "cfg_setquiz")
    /\ UNCHANGED <<registryVars, lobbyVars, conn, http, pwd, out, schedVars, nevents>>

\* lobby.LoadQuiz(req.Quiz)
ConfigureLoadQuiz(c) ==
    /\ pc[c] = "cfg_load"
    /\ IF req[c].quiz \in Quizzes
       THEN Goto(c, "cfg_setquiz") /\ UNCHANGED out
       ELSE /\ out' = WriteTo(out, c, ErrorMsg(QuizNotFoundErrorCode, c, "configure"))
            /\ Goto(c, "read")
    /\ UNCHANGED <<registryVars, lobbyVars, conn, http, pwd, schedVars, nevents>>

\* lobby.SetQuiz(q)
ConfigureSetQuiz(c) ==
    /\ pc[c] = "cfg_setquiz"
    /\ quiz' = req[c].quiz
    /\ Goto(c, IF req[c].pw # Empty THEN "cfg_setpw" ELSE "cfg_reply")
    /\ UNCHANGED <<registryVars, state, owner, fixedVars, password, question, players, doneVars, conn, http, pwd, out, schedVars, nevents>>

\* lobby.SetPassword(req.Password)
ConfigureSetPassword(c) ==
    /\ pc[c] = "cfg_setpw"
    /\ password' = req[c].pw
    /\ Goto(c, "cfg_reply")
    /\ UNCHANGED <<registryVars, state, owner, fixedVars, quiz, question, players, doneVars, conn, http, pwd, out, schedVars, nevents>>

\* wsjson.Write(ctx, conn, res) of the configure response
ConfigureReply(c) ==
    /\ pc[c] = "cfg_reply"
    /\ out' = WriteTo(out, c, Msg("configure", Empty, "", c, "configure"))
    /\ Goto(c, IF req[c].quiz # Empty THEN "cfg_bcast" ELSE "read")
    /\ UNCHANGED <<registryVars, lobbyVars, conn, http, pwd, schedVars, nevents>>

\* lobby.BroadcastConfigure(ctx, req.Quiz)
ConfigureBroadcast(c) ==
    /\ pc[c] = "cfg_bcast"
    /\ out' = Broadcast(out, Msg("configure", req[c].quiz, "", c, "configure"))
    /\ Goto(c, "read")
    /\ UNCHANGED <<registryVars, lobbyVars, conn, http, pwd, schedVars, nevents>>

\* --------------------------------------------------------- handleStartRequest
StartConn(c) == OwnerCheckConn(c, "start_conn", "start_owner")

StartOwner(c) == OwnerCheckOwner(c, "start_owner", "start_quiz")

\* q := lobby.Quiz(), and the loop that sets question.ID = i
StartQuiz(c) ==
    /\ pc[c] = "start_quiz"
    /\ GotoWith(c, "start_setquiz", [loc[c] EXCEPT !.q = quiz])
    /\ UNCHANGED <<registryVars, lobbyVars, conn, http, pwd, out, schedVars, nevents>>

\* lobby.SetQuiz(q)
StartSetQuiz(c) ==
    /\ pc[c] = "start_setquiz"
    /\ quiz' = loc[c].q
    /\ Goto(c, "start_state")
    /\ UNCHANGED <<registryVars, state, owner, fixedVars, password, question, players, doneVars, conn, http, pwd, out, schedVars, nevents>>

\* lobby.SetState(quiz.LobbyStateQuiz)
StartSetState(c) ==
    /\ pc[c] = "start_state"
    /\ state' = LobbyStateQuiz
    /\ Goto(c, "start_close")
    /\ UNCHANGED <<registryVars, owner, fixedVars, password, quiz, question, players, doneVars, conn, http, pwd, out, schedVars, nevents>>

\* lobby.CloseUnregisteredConns()
StartCloseUnregistered(c) ==
    /\ pc[c] = "start_close"
    /\ conn' = [d \in Conns |-> IF d \in allPlayers(FALSE) /\ players[d] = NilPlayer
                                THEN "closed" ELSE conn[d]]
    /\ Goto(c, "start_bcast")
    /\ UNCHANGED <<registryVars, lobbyVars, http, pwd, out, schedVars, nevents>>

\* lobby.BroadcastStart(ctx): each player's message carries NewToken(its
\* username); then the scheduler is spawned (go func)
StartBroadcast(c) ==
    /\ pc[c] = "start_bcast"
    /\ out' = [d \in Conns |-> IF d \in allPlayers(TRUE) /\ conn[d] = "open"
                               THEN Append(out[d], StartMsg(NewToken(players[d].username), c))
                               ELSE out[d]]
    /\ sched' = Append(sched, [pc |-> IF QuestionsOf(quiz) > 0 THEN "check" ELSE "clear",
                                i |-> 0, n |-> QuestionsOf(quiz)])
    /\ UNCHANGED sideVars
    /\ Goto(c, "read")
    /\ UNCHANGED <<registryVars, lobbyVars, conn, http, pwd, nevents>>

\* ------------------------------------------------------------- quiz scheduler
\* (the go func of handleStartRequest; sched[k].i is the index of its loop)
SchedGoto(k, l) == sched' = [sched EXCEPT ![k].pc = l] /\ UNCHANGED sideVars

\* if lobby.State() == quiz.LobbyStateEnded { return }
SchedCheck(k) ==
    /\ sched[k].pc = "check"
    /\ SchedGoto(k, IF state = LobbyStateEnded THEN "done" ELSE "set")
    /\ UNCHANGED <<registryVars, lobbyVars, conn, http, pc, pwd, req, loc, out, nevents>>

\* lobby.SetCurrentQuestion(&question)
SchedSetQuestion(k) ==
    /\ sched[k].pc = "set"
    /\ question' = sched[k].i + 1
    /\ SchedGoto(k, "bcast")
    /\ UNCHANGED <<registryVars, state, owner, fixedVars, password, quiz, players, doneVars,
                   conn, http, pc, pwd, req, loc, out, nevents>>

\* question i of the started quiz: handleStartRequest has set its ID to i, and
\* it holds its canonical answer
QuizQuestion(i) == [id |-> i, answer |-> "canonical"]

\* question.Answer = nil, on the scheduler's copy of the question
StripAnswer(q) == [q EXCEPT !.answer = ""]

\* api.Response[api.QuestionResponseData]
QuestionMsg(q) == Msg("question", q.id, q.answer, 0, "scheduler")

\* lobby.BroadcastQuestion(ctx, question)
SchedBroadcast(k) ==
    /\ sched[k].pc = "bcast"
    /\ out' = Broadcast(out, QuestionMsg(StripAnswer(QuizQuestion(sched[k].i))))
    /\ SchedGoto(k, "wait")
    /\ UNCHANGED <<registryVars, lobbyVars, conn, http, pc, pwd, req, loc, nevents>>

\* <-deadline.Done(): the question's time has elapsed
SchedWait(k) ==
    /\ sched[k].pc = "wait"
    /\ sched' = [sched EXCEPT ![k] = [pc |-> IF @.i + 1 < @.n THEN "check" ELSE "clear",
                                      i |-> @.i + 1, n |-> @.n]]
    /\ UNCHANGED sideVars
    /\ UNCHANGED <<registryVars, lobbyVars, conn, http, pc, pwd, req, loc, out, nevents>>

\* lobby.SetCurrentQuestion(nil)
SchedClear(k) ==
    /\ sched[k].pc = "clear"
    /\ question' = 0
    /\ SchedGoto(k, "finish")
    /\ UNCHANGED <<registryVars, state, owner, fixedVars, password, quiz, players, doneVars,
                   conn, http, pc, pwd, req, loc, out, nevents>>

\* lobby.SetState(quiz.LobbyStateAnswers)
SchedFinish(k) ==
    /\ sched[k].pc = "finish"
    /\ state' = LobbyStateAnswers
    /\ SchedGoto(k, "done")
    /\ UNCHANGED <<registryVars, owner, fixedVars, password, quiz, question, players, doneVars,
                   conn, http, pc, pwd, req, loc, out, nevents>>

\* -------------------------------------------------------- handleAnswerRequest
\* question := lobby.CurrentQuestion()
AnswerQuestion(c) ==
    /\ pc[c] = "ans_question"
    /\ GotoWith(c, IF question # 0 THEN "ans_conn" ELSE "read", [loc[c] EXCEPT !.q = question])
    /\ UNCHANGED <<registryVars, lobbyVars, conn, http, pwd, out, schedVars, nevents>>

\* player, ok := lobby.GetPlayerByConn(conn)
AnswerConn(c) ==
    /\ pc[c] = "ans_conn"
    /\ Goto(c, IF c \in DOMAIN players /\ players[c] # NilPlayer THEN "ans_register" ELSE "read")
    /\ UNCHANGED <<registryVars, lobbyVars, conn, http, pwd, out, schedVars, nevents>>

\* player.RegisterAnswer(question.ID, req.Answer)
AnswerRegister(c) ==
    /\ pc[c] = "ans_register"
    /\ players' = IF c \in DOMAIN players
                  THEN [players EXCEPT ![c].answers = @ \cup {loc[c].q - 1}]
                  ELSE players
    /\ Goto(c, "read")
    /\ UNCHANGED <<registryVars, state, owner, fixedVars, password, quiz, question, doneVars, conn, http, pwd, out, schedVars, nevents>>

\* -------------------------------------------------------- handleReviewRequest
ReviewConn(c) == OwnerCheckConn(c, "rev_conn", "rev_owner")

ReviewOwner(c) == OwnerCheckOwner(c, "rev_owner", "rev_send")

\* lobby.SendReview(req.Validate): the decision is handed to the scheduler
ReviewSend(c) ==
    /\ pc[c] = "rev_send"
    /\ rev.pc # "wait"
    /\ Goto(c, "read")
    /\ UNCHANGED <<registryVars, lobbyVars, conn, http, pwd, out, schedVars, nevents>>

\* ------------------------------------------------------------------ the review
\* Steps 6 and 7 of the scheduler, after the questions: the answers are taken
\* question by question and, within a question, player by player
ReviewPairs(n) == {<<q, c>> \in (0..(n - 1)) \X Conns :
                     /\ c \in DOMAIN players /\ players[c] # NilPlayer
                     /\ players[c].alive
                     /\ q \in players[c].answers}

\* the place of an answer in that order
ReviewRank(p) == p[1] * (MaxConns + 1) + p[2]

\* the answers still to be presented after the one under review
ReviewAhead(n) == {p \in ReviewPairs(n) : rev.log = <<>> \/ ReviewRank(p) > ReviewRank(rev.cur)}

\* review{question, player, answer}
ReviewMsg(p) ==
    [type |-> "review", user |-> players[p[2]].username, action |-> "", by |-> 0,
     cause |-> "scheduler", question |-> p[1]]

\* results{username -> score}
ResultsMsg(score) ==
    [type |-> "results", user |-> Empty, action |-> "", by |-> 0, cause |-> "scheduler",
     results |-> [u \in {players[c].username : c \in allPlayers(TRUE)} |->
                    score[CHOOSE c \in allPlayers(TRUE) : players[c].username = u]]]

\* Player.AddScore with more than the score that was earned
AddScoreDouble(score, n) == score + n + n
\* Player.AddScore
AddScore(score, n) == score + n

\* the lobby is over: Done is closed or the state is Ended
ReviewCancelled == doneCh \/ state = LobbyStateEnded

\* the scheduler has set the state to Answers: the review begins
ReviewBegin ==
    /\ rev.pc = "idle"
    /\ state = LobbyStateAnswers
    /\ \E k \in DOMAIN sched : sched[k].pc = "done" /\ sched[k].i = sched[k].n
    /\ rev' = [rev EXCEPT !.pc = "next"]
    /\ UNCHANGED <<registryVars, lobbyVars, handlerVars, conn, sched, lim, locks, nevents>>

\* the next answer is broadcast for review, or none is left
ReviewPresent ==
    /\ rev.pc = "next"
    /\ ~ReviewCancelled
    /\ IF ReviewAhead(QuestionsOf(quiz)) = {}
       THEN /\ rev' = [rev EXCEPT !.pc = "results"]
            /\ UNCHANGED out
       ELSE LET p == CHOOSE p \in ReviewAhead(QuestionsOf(quiz)) :
                        \A o \in ReviewAhead(QuestionsOf(quiz)) : ReviewRank(p) <= ReviewRank(o)
            IN /\ rev' = [rev EXCEPT !.pc = "wait", !.cur = p]
               /\ out' = Broadcast(out, ReviewMsg(p))
    /\ UNCHANGED <<registryVars, lobbyVars, conn, http, pc, pwd, req, loc, sched, lim, locks, nevents>>

\* lobby.SendReview(req.Validate) meets the scheduler blocked on the review
\* channel: the decision is logged and a validated answer is credited
ReviewDeliver(c) ==
    /\ pc[c] = "rev_send"
    /\ rev.pc = "wait"
    /\ ~ReviewCancelled
    /\ rev' = [rev EXCEPT !.pc = "next",
                          !.log = Append(@, [q |-> rev.cur[1], c |-> rev.cur[2],
                                             validate |-> req[c].user = 1]),
                          !.score[rev.cur[2]] = AddScore(@, IF req[c].user = 1 THEN 1 ELSE 0)]
    /\ Goto(c, "read")
    /\ UNCHANGED <<registryVars, lobbyVars, conn, http, pwd, out, sched, lim, locks, nevents>>

\* the results are broadcast
ReviewResults ==
    /\ rev.pc = "results"
    /\ ~ReviewCancelled
    /\ out' = Broadcast(out, ResultsMsg(rev.score))
    /\ rev' = [rev EXCEPT !.pc = "end"]
    /\ UNCHANGED <<registryVars, lobbyVars, conn, http, pc, pwd, req, loc, sched, lim, locks, nevents>>

\* the state becomes Ended
ReviewEnd ==
    /\ rev.pc = "end"
    /\ ~ReviewCancelled
    /\ state' = LobbyStateEnded
    /\ rev' = [rev EXCEPT !.pc = "done"]
    /\ UNCHANGED <<registryVars, owner, fixedVars, password, quiz, question, players, doneVars,
                   handlerVars, conn, sched, lim, locks, nevents>>

\* the scheduler returns when the lobby is over
ReviewCancel ==
    /\ rev.pc \in {"next", "wait", "results", "end"}
    /\ ReviewCancelled
    /\ rev' = [rev EXCEPT !.pc = "done"]
    /\ UNCHANGED <<registryVars, lobbyVars, handlerVars, conn, sched, lim, locks, nevents>>

\* ------------------------------------------------------------------- registry
\* Lobby.Close: c.Close on every connection of the map, then close(l.doneCh),
\* which panics when the channel is closed already
Close ==
    /\ conn' = [d \in Conns |-> IF d \in DOMAIN players THEN "closed" ELSE conn[d]]
    /\ IF doneCh
       THEN panicked' = TRUE /\ UNCHANGED doneCh
       ELSE doneCh' = TRUE /\ UNCHANGED panicked

\* a Delete that forgets the lobby without closing it
DeleteWithoutClose(id) ==
    /\ ~Locked
    /\ lobbies' = lobbies \ {id}
    /\ UNCHANGED <<conn, doneVars>>

\* lobbies.Delete(id), under the registry lock: Close the lobby found under
\* id, then delete(l.lobbies, id); a panic of Close leaves the entry
Delete(id) ==
    /\ ~Locked
    /\ IF id = LobbyID /\ id \in lobbies
       THEN Close /\ lobbies' = IF doneCh THEN lobbies ELSE lobbies \ {id}
       ELSE /\ lobbies' = lobbies \ {id, IF id = LobbyID THEN LaterLobby ELSE id}
            /\ UNCHANGED <<conn, doneVars>>


\* the tasks of the lobby that was registered under LobbyID have all returned
PriorOver ==
    /\ \A c \in Conns : pc[c] \in {"idle", "done"}
    /\ \A k \in DOMAIN sched : sched[k].pc = "done"
    /\ sup.pc \in {"none", "done"}

\* newLobbyID: a random id.  The model follows one lobby under LobbyID, so
\* LobbyID is drawn again only once the tasks of the former one have returned.
Draws == IF LobbyID \in lobbies \/ PriorOver THEN IDs ELSE {OtherID}

\* lobbies.Register(opts), up to l.mu.Lock(): the options' defaults, the first
\* id, created := time.Now(), the Lobby and its key
RegisterNew(mp, pw, rt, d) ==
    /\ reg.pc = "idle"
    /\ reg.calls < MaxRegisters
    /\ d \in Draws
    /\ reg' = [pc |-> "lock", id |-> d, key |-> newLobbyTokenKey(JWTSalt, d, now),
               retries |-> 0, mp |-> MaxPlayersOf(mp), pw |-> pw, opt |-> rt,
               rt |-> RegisterTimeout(rt), res |-> "none", calls |-> reg.calls + 1]
    /\ UNCHANGED <<lobbies, sup, now, prior, lobbyVars, conn, handlerVars, schedVars, nevents>>

\* l.mu.Lock(); retries := 50
RegisterLock ==
    /\ reg.pc = "lock"
    /\ reg' = [reg EXCEPT !.pc = "loop", !.retries = Retries]
    /\ UNCHANGED <<lobbies, sup, now, prior, lobbyVars, conn, handlerVars, schedVars, nevents>>

\* a loop that gives up one draw too early
RegisterLoopShort(d) ==
    /\ reg.pc = "loop"
    /\ reg.retries > 0
    /\ d \in Draws
    /\ reg' = IF reg.id \notin lobbies
              THEN [reg EXCEPT !.pc = "exit"]
              ELSE [reg EXCEPT !.id = d, !.retries = @ - 1,
                               !.pc = IF reg.retries - 1 > 1 THEN "loop" ELSE "exit"]
    /\ UNCHANGED <<lobbies, sup, now, prior, lobbyVars, conn, handlerVars, schedVars, nevents>>

\* for retries > 0 { if !exist { break }; lobby.id = newLobbyID(); retries-- }
RegisterLoop(d) ==
    /\ reg.pc = "loop"
    /\ reg.retries > 0
    /\ d \in Draws
    /\ reg' = IF reg.id \notin lobbies
              THEN [reg EXCEPT !.pc = "exit"]
              ELSE [reg EXCEPT !.id = d, !.retries = @ - 1,
                               !.pc = IF reg.retries - 1 > 0 THEN "loop" ELSE "exit"]
    /\ UNCHANGED <<lobbies, sup, now, prior, lobbyVars, conn, handlerVars, schedVars, nevents>>

\* if retries <= 0 { return nil, errNoLobbySlotAvailable }
RegisterNoSlot ==
    /\ reg.pc = "exit"
    /\ reg.retries <= 0
    /\ reg' = [IdleReg EXCEPT !.res = "noslot", !.calls = reg.calls]
    /\ UNCHANGED <<lobbies, sup, now, prior, lobbyVars, conn, handlerVars, schedVars, nevents>>

\* the tokens the start messages of the connections carry
StartTokens ==
    UNION {{out[c][i].token : i \in {j \in DOMAIN out[c] : out[c][j].type = "start"}} : c \in Conns}

\* l.lobbies[lobby.id] = lobby; go l.lobbyTimeout(lobby, opts.RegisterTimeout).
\* Under LobbyID the new Lobby takes the place of the former one in the model;
\* under another id its fields and its clients stay outside.
RegisterInsert ==
    /\ reg.pc = "exit"
    /\ reg.retries > 0
    /\ reg.id = LobbyID => PriorOver
    /\ lobbies' = lobbies \cup {reg.id}
    /\ reg' = [IdleReg EXCEPT !.id = reg.id, !.opt = reg.opt, !.rt = reg.rt, !.res = "ok",
                              !.calls = reg.calls]
    /\ IF reg.id = LobbyID
       THEN /\ state' = LobbyStateCreated
            /\ owner' = Empty
            /\ maxPlayers' = reg.mp
            /\ password' = reg.pw
            /\ quiz' = 1
            /\ question' = 0
            /\ players' = [c \in {} |-> NilPlayer]
            /\ doneCh' = FALSE
            /\ jwtKey' = reg.key
            /\ sup' = [pc |-> "wait", deadline |-> now + reg.rt]
            /\ prior' = prior \cup StartTokens
            /\ UNCHANGED panicked
       ELSE UNCHANGED <<lobbyVars, sup, prior>>
    /\ UNCHANGED <<now, conn, handlerVars, schedVars, nevents>>

\* time passes
Tick(d) ==
    /\ now + d <= MaxTime
    /\ now' = now + d
    /\ UNCHANGED <<lobbies, reg, sup, prior, lobbyVars, conn, handlerVars, schedVars, nevents>>

\* a supervisor that looks at Done only once its timer has fired
SupDoneLate ==
    /\ sup.pc = "wait"
    /\ doneCh
    /\ now >= sup.deadline
    /\ sup' = [sup EXCEPT !.pc = "done"]
    /\ UNCHANGED <<lobbies, reg, now, prior, lobbyVars, conn, handlerVars, schedVars, nevents>>

\* lobbyTimeout: case <-lobby.Done(): return
SupDone ==
    /\ sup.pc = "wait"
    /\ doneCh
    /\ sup' = [sup EXCEPT !.pc = "done"]
    /\ UNCHANGED <<lobbies, reg, now, prior, lobbyVars, conn, handlerVars, schedVars, nevents>>

\* a supervisor that deletes the lobby whatever its state
SupTimeoutAnyState ==
    /\ sup.pc = "wait"
    /\ now >= sup.deadline
    /\ sup' = [sup EXCEPT !.pc = "delete"]
    /\ UNCHANGED <<lobbies, reg, now, prior, lobbyVars, conn, handlerVars, schedVars, nevents>>

\* lobbyTimeout: case <-time.After(timeout): switch lobby.State()
SupTimeout ==
    /\ sup.pc = "wait"
    /\ now >= sup.deadline
    /\ sup' = [sup EXCEPT !.pc = IF state \in {LobbyStateCreated, LobbyStateRegister}
                                  THEN "delete" ELSE "done"]
    /\ UNCHANGED <<lobbies, reg, now, prior, lobbyVars, conn, handlerVars, schedVars, nevents>>

\* lobbyTimeout: l.Delete(lobby.ID())
SupDelete ==
    /\ sup.pc = "delete"
    /\ Delete(LobbyID)
    /\ sup' = [sup EXCEPT !.pc = "done"]
    /\ UNCHANGED <<reg, now, prior, state, owner, fixedVars, password, quiz, question, players,
                   handlerVars, schedVars, nevents>>

\* a task that holds the Lobby calls its Close
CloseCall ==
    /\ LobbyID \in lobbies \/ doneCh
    /\ Close
    /\ UNCHANGED <<registryVars, state, owner, fixedVars, password, quiz, question, players,
                   handlerVars, schedVars, nevents>>

\* ----------------------------------------------------------- handleDisconnect
\* readRequest: wsjson.Read fails on a closed connection, ServeHTTP returns
\* and its deferred handleDisconnect runs: conn.CloseNow(), then
\* switch lobby.State()
Disconnect(c) ==
    /\ \/ pc[c] = "read" /\ conn[c] = "closed"
       \/ pc[c] = "failed"
    /\ conn' = [conn EXCEPT ![c] = "closed"]
    /\ Goto(c, CASE state \in {LobbyStateCreated, LobbyStateRegister} -> "disc_conn"
                 [] state = LobbyStateQuiz -> "dq_conn"
                 [] OTHER -> "done")
    /\ UNCHANGED <<registryVars, lobbyVars, http, pwd, out, schedVars, nevents>>

\* player, ok := lobby.GetPlayerByConn(conn)
DisconnectConn(c) ==
    /\ pc[c] = "disc_conn"
    /\ GotoWith(c, "disc_delete",
                [loc[c] EXCEPT !.user = IF c \in DOMAIN players THEN players[c].username ELSE Empty])
    /\ UNCHANGED <<registryVars, lobbyVars, conn, http, pwd, out, schedVars, nevents>>

\* lobby.DeletePlayerByConn(conn); if !ok || player == nil { return }
DisconnectDelete(c) ==
    /\ pc[c] = "disc_delete"
    /\ players' = deleteConn(c)
    /\ Goto(c, IF loc[c].user = Empty THEN "done" ELSE "disc_bcast")
    /\ UNCHANGED <<registryVars, state, owner, fixedVars, password, quiz, question, doneVars, conn, http, pwd, out, schedVars, nevents>>

\* lobby.BroadcastPlayerUpdate(timeoutCtx, username, "disconnect")
DisconnectBroadcast(c) ==
    /\ pc[c] = "disc_bcast"
    /\ out' = Broadcast(out, Msg("playerUpdate", loc[c].user, "disconnect", c, "disconnect"))
    /\ Goto(c, "disc_owner")
    /\ UNCHANGED <<registryVars, lobbyVars, conn, http, pwd, schedVars, nevents>>

\* if lobby.Owner() != username { return }
DisconnectOwner(c) ==
    /\ pc[c] = "disc_owner"
    /\ Goto(c, IF owner # loc[c].user THEN "done" ELSE "disc_list")
    /\ UNCHANGED <<registryVars, lobbyVars, conn, http, pwd, out, schedVars, nevents>>

\* players := lobby.GetPlayerList()
DisconnectList(c) ==
    /\ pc[c] = "disc_list"
    /\ GotoWith(c, IF Len(GetPlayerList) = 0 THEN "disc_lobby" ELSE "disc_setowner",
                [loc[c] EXCEPT !.list = GetPlayerList])
    /\ UNCHANGED <<registryVars, lobbyVars, conn, http, pwd, out, schedVars, nevents>>

\* h.Lobbies.Delete(lobby.ID())
DisconnectDeleteLobby(c) ==
    /\ pc[c] \in {"disc_lobby", "dq_lobby"}
    /\ Delete(LobbyID)
    /\ Goto(c, "done")
    /\ UNCHANGED <<regTasks, state, owner, fixedVars, password, quiz, question, players, http, pwd, out, schedVars, nevents>>

\* newOwner := players[0]; lobby.SetOwner(newOwner)
DisconnectSetOwner(c) ==
    /\ pc[c] = "disc_setowner"
    /\ owner' = loc[c].list[1]
    /\ Goto(c, "disc_newowner")
    /\ UNCHANGED <<registryVars, state, fixedVars, password, quiz, question, players, doneVars, conn, http, pwd, out, schedVars, nevents>>

\* lobby.BroadcastPlayerUpdate(timeoutCtx, newOwner, "new owner")
DisconnectNewOwner(c) ==
    /\ pc[c] = "disc_newowner"
    /\ out' = Broadcast(out, Msg("playerUpdate", loc[c].list[1], "new owner", c, "disconnect"))
    /\ Goto(c, "done")
    /\ UNCHANGED <<registryVars, lobbyVars, conn, http, pwd, schedVars, nevents>>

\* case quiz.LobbyStateQuiz: player, ok := lobby.GetPlayerByConn(conn)
DisconnectQuizConn(c) ==
    /\ pc[c] = "dq_conn"
    /\ Goto(c, IF c \in DOMAIN players /\ players[c] # NilPlayer THEN "dq_dead" ELSE "done")
    /\ UNCHANGED <<registryVars, lobbyVars, conn, http, pwd, out, schedVars, nevents>>

\* player.Disconnect()
DisconnectQuizDead(c) ==
    /\ pc[c] = "dq_dead"
    /\ players' = IF c \in DOMAIN players THEN [players EXCEPT ![c].alive = FALSE] ELSE players
    /\ Goto(c, "dq_list")
    /\ UNCHANGED <<registryVars, state, owner, fixedVars, password, quiz, question, doneVars, conn, http, pwd, out, schedVars, nevents>>

\* a routine that never finds the player list empty
DisconnectQuizListNever(c) ==
    /\ pc[c] = "dq_list"
    /\ Goto(c, "done")
    /\ UNCHANGED <<registryVars, lobbyVars, conn, http, pwd, out, schedVars, nevents>>

\* if players := lobby.GetPlayerList(); len(players) == 0
DisconnectQuizList(c) ==
    /\ pc[c] = "dq_list"
    /\ Goto(c, IF Len(GetPlayerList) = 0 THEN "dq_ended" ELSE "done")
    /\ UNCHANGED <<registryVars, lobbyVars, conn, http, pwd, out, schedVars, nevents>>

\* lobby.SetState(quiz.LobbyStateEnded)
DisconnectQuizEnded(c) ==
    /\ pc[c] = "dq_ended"
    /\ state' = LobbyStateEnded
    /\ Goto(c, "dq_lobby")
    /\ UNCHANGED <<registryVars, owner, fixedVars, password, quiz, question, players, doneVars, conn, http, pwd, out, schedVars, nevents>>

\* ------------------------------------------------------------- observations
\* no handler is in the middle of an operation, and every closed connection
\* has run its disconnect routine
Quiescent ==
    \A c \in Conns : pc[c] \in {"idle", "done"} \/ (pc[c] = "read" /\ conn[c] = "open")

\* the usernames GetPlayerList returns
LiveNames == {players[c].username : c \in LiveConns}

\* the owner's player has left the lobby and no owner was elected since
OwnerGone == owner # Empty /\ owner \notin LiveNames

\* m is the playerUpdate with action a that the handler of connection c sent
\* while it served cause
IsUpdate(m, a, c, cause) ==
    m.type = "playerUpdate" /\ m.action = a /\ m.by = c /\ m.cause = cause

\* connection d was sent, by the handler of c serving cause, a playerUpdate
\* with action a and later one with action b
UpdateBefore(d, a, b, c, cause) ==
    \E i, j \in DOMAIN out[d] :
        i < j /\ IsUpdate(out[d][i], a, c, cause) /\ IsUpdate(out[d][j], b, c, cause)

\* ----------------------------------------------------------------------- Next
\* the upgrade of a connection: the request, NewLobby, ServeHTTP up to its loop
Upgrade(PS) ==
    \/ \E c \in Conns, p \in PS : Dial(c, p)
    \/ \E c \in Conns : MwCheckPassword(c)
    \/ \E c \in Conns : MwState(c)
    \/ \E c \in Conns : MwIsFull(c)
    \/ \E c \in Conns : SvCreated(c)
    \/ \E c \in Conns : SvSetRegister(c)
    \/ \E c \in Conns : SvAccept(c)
    \/ \E c \in Conns : SvAddConn(c)

\* the end of a connection before the quiz starts
Teardown ==
    \/ \E c \in Conns : ClientClose(c)
    \/ \E c \in Conns : Disconnect(c)
    \/ \E c \in Conns : DisconnectConn(c)
    \/ \E c \in Conns : DisconnectDelete(c)
    \/ \E c \in Conns : DisconnectBroadcast(c)
    \/ \E c \in Conns : DisconnectOwner(c)
    \/ \E c \in Conns : DisconnectList(c)
    \/ \E c \in Conns : DisconnectDeleteLobby(c)
    \/ \E c \in Conns : DisconnectSetOwner(c)
    \/ \E c \in Conns : DisconnectNewOwner(c)

\* the end of a connection during the quiz
QuizTeardown ==
    \/ \E c \in Conns : DisconnectQuizConn(c)
    \/ \E c \in Conns : DisconnectQuizDead(c)
    \/ \E c \in Conns : DisconnectQuizList(c)
    \/ \E c \in Conns : DisconnectQuizEnded(c)

RegisterHandler ==
    \/ \E c \in Conns : RegisterConn(c)
    \/ \E c \in Conns : RegisterExists(c)
    \/ \E c \in Conns : RegisterAdd(c)
    \/ \E c \in Conns : RegisterReply(c)
    \/ \E c \in Conns : RegisterJoin(c)
    \/ \E c \in Conns : RegisterOwner(c)
    \/ \E c \in Conns : RegisterSetOwner(c)
    \/ \E c \in Conns : RegisterNewOwner(c)

KickHandler ==
    \/ \E c \in Conns : KickConn(c)
    \/ \E c \in Conns : KickOwner(c)
    \/ \E c \in Conns : KickDelete(c)
    \/ \E c \in Conns : KickReply(c)
    \/ \E c \in Conns : KickBroadcast(c)

ConfigureQuizHandler ==
    \/ \E c \in Conns : ConfigureLoadQuiz(c)
    \/ \E c \in Conns : ConfigureSetQuiz(c)
    \/ \E c \in Conns : ConfigureBroadcast(c)

ConfigureHandler ==
    \/ \E c \in Conns : ConfigureConn(c)
    \/ \E c \in Conns : ConfigureOwner(c)
    \/ \E c \in Conns : ConfigureReply(c)

StartHandler ==
    \/ \E c \in Conns : StartConn(c)
    \/ \E c \in Conns : StartOwner(c)
    \/ \E c \in Conns : StartQuiz(c)
    \/ \E c \in Conns : StartSetQuiz(c)
    \/ \E c \in Conns : StartSetState(c)
    \/ \E c \in Conns : StartCloseUnregistered(c)
    \/ \E c \in Conns : StartBroadcast(c)

Scheduler ==
    \/ \E k \in DOMAIN sched : SchedCheck(k)
    \/ \E k \in DOMAIN sched : SchedSetQuestion(k)
    \/ \E k \in DOMAIN sched : SchedBroadcast(k)
    \/ \E k \in DOMAIN sched : SchedWait(k)
    \/ \E k \in DOMAIN sched : SchedClear(k)
    \/ \E k \in DOMAIN sched : SchedFinish(k)

AnswerHandler ==
    \/ \E c \in Conns : AnswerQuestion(c)
    \/ \E c \in Conns : AnswerConn(c)
    \/ \E c \in Conns : AnswerRegister(c)

ReviewHandler ==
    \/ \E c \in Conns : ReviewConn(c)
    \/ \E c \in Conns : ReviewOwner(c)
    \/ \E c \in Conns : ReviewSend(c)

ReviewTask ==
    \/ ReviewBegin
    \/ ReviewPresent
    \/ \E c \in Conns : ReviewDeliver(c)
    \/ ReviewResults
    \/ ReviewEnd
    \/ ReviewCancel

\* the clock is read at the registration of a lobby and at its timeout: it
\* moves by the default timeout
Durations == {DefaultRegisterTimeout}
\* LobbyOptions.RegisterTimeout, in seconds
TimeoutOptions == {-1, 0, 1}

Registration(RT, D) ==
    \/ \E rt \in RT, d \in D : RegisterNew(-1, Empty, rt, d)
    \/ RegisterLock
    \/ \E d \in D : RegisterLoop(d)
    \/ RegisterNoSlot
    \/ RegisterInsert

Supervisor ==
    \/ SupDone
    \/ SupTimeout
    \/ SupDelete

Next ==
    \/ Registration(TimeoutOptions, IDs)
    \/ Supervisor
    \/ \E d \in Durations : Tick(d)
    \/ CloseCall
    \/ Upgrade({Empty} \cup Passwords)
    \/ \E c \in Conns, r \in Requests : Send(c, r)
    \/ \E c \in Conns : HandleLobbyRequest(c)
    \/ RegisterHandler
    \/ KickHandler
    \/ ConfigureHandler
    \/ ConfigureQuizHandler
    \/ \E c \in Conns : ConfigureSetPassword(c)
    \/ StartHandler
    \/ Scheduler
    \/ AnswerHandler
    \/ ReviewHandler
    \/ ReviewTask
    \/ Teardown
    \/ QuizTeardown

Spec == Init /\ [][Next]_vars

\* ------------------------------------------------------------------ the gate
\* Clients that come and go, register and set the password: the upgrades of a
\* lobby with or without a capacity and a password
GateRequests ==
    {Request("register", 1, Empty, Empty), Request("configure", Empty, Empty, 1)}

NextGate ==
    \/ Upgrade({Empty} \cup Passwords)
    \/ \E c \in Conns, r \in GateRequests : Send(c, r)
    \/ RegisterHandler
    \/ ConfigureHandler
    \/ \E c \in Conns : ConfigureSetPassword(c)
    \/ Teardown

SpecGate == Init /\ [][NextGate]_vars

\* -------------------------------------------------------------- registration
\* Clients of an open lobby (no capacity, no password) that register, kick
\* and leave
RegisterRequests ==
    {Request("register", u, Empty, Empty) : u \in Users}
    \cup {Request("kick", u, Empty, Empty) : u \in Users}

InitOpen == Init /\ maxPlayers = -1 /\ password = Empty

NextRegister ==
    \/ Upgrade({Empty})
    \/ \E c \in Conns, r \in RegisterRequests : Send(c, r)
    \/ RegisterHandler
    \/ KickHandler
    \/ Teardown

SpecRegister == InitOpen /\ [][NextRegister]_vars

\* ---------------------------------------------------------------- the owner
\* An open lobby in Register after connection 1 registered as user 1, the
\* owner, and then connection 2 as user 2; its clients send the owner's
\* requests, through the quiz, and other connections come without registering
Seated(q) ==
    /\ lobbies = {LobbyID}
    /\ state = LobbyStateRegister
    /\ owner = 1
    /\ maxPlayers = -1
    /\ password = Empty
    /\ quiz = q
    /\ question = 0
    /\ players = [c \in {1, 2} |-> NewPlayer(c)]
    /\ doneCh = FALSE
    /\ conn = [c \in Conns |-> IF c \in {1, 2} THEN "open" ELSE "none"]
    /\ http = [c \in Conns |-> IF c \in {1, 2}
                               THEN [status |-> StatusSwitchingProtocols, code |-> 0]
                               ELSE NoHTTP]
    /\ pc = [c \in Conns |-> IF c \in {1, 2} THEN "read" ELSE "idle"]
    /\ pwd = [c \in Conns |-> Empty]
    /\ req = [c \in Conns |-> NoReq]
    /\ loc = [c \in Conns |-> NoLocals]
    /\ out = [c \in Conns |->
                CASE c = 1 -> <<Msg("lobby", Empty, "", 1, "banner"),
                                Msg("register", Empty, "", 1, "register"),
                                Msg("playerUpdate", 1, "join", 1, "register"),
                                Msg("playerUpdate", 1, "new owner", 1, "register"),
                                Msg("playerUpdate", 2, "join", 2, "register")>>
                  [] c = 2 -> <<Msg("lobby", Empty, "", 2, "banner"),
                                Msg("register", Empty, "", 2, "register"),
                                Msg("playerUpdate", 2, "join", 2, "register")>>
                  [] OTHER -> <<>>]
    /\ sched = <<>>
    /\ rev = NoReview
    /\ lim = NewLimiter
    /\ locks = NoLocks
    /\ nevents = 0
    /\ jwtKey = newLobbyTokenKey(JWTSalt, LobbyID, 0)
    /\ panicked = FALSE
    /\ reg = [IdleReg EXCEPT !.id = LobbyID, !.rt = RegisterTimeout(0), !.res = "ok",
                             !.calls = 1]
    /\ sup = [pc |-> "wait", deadline |-> RegisterTimeout(0)]
    /\ now = 0
    /\ prior = {}

\* the first quiz is selected
InitSeated == Seated(1)

OwnerRequests ==
    {Request("kick", u, Empty, Empty) : u \in Users}
    \cup {Request("configure", Empty, 2, Empty), Request("start", Empty, Empty, Empty),
          Request("review", Empty, Empty, Empty)}

NextOwner ==
    \/ \E c \in Conns : Dial(c, Empty)
    \/ \E c \in Conns : MwCheckPassword(c)
    \/ \E c \in Conns : MwState(c)
    \/ \E c \in Conns : MwIsFull(c)
    \/ \E c \in Conns : SvCreated(c)
    \/ \E c \in Conns : SvAccept(c)
    \/ \E c \in Conns : SvAddConn(c)
    \/ \E c \in Conns, r \in OwnerRequests : Send(c, r)
    \/ KickHandler
    \/ ConfigureHandler
    \/ ConfigureQuizHandler
    \/ StartHandler
    \/ Scheduler
    \/ ReviewHandler
    \/ Teardown
    \/ QuizTeardown

SpecOwner == InitSeated /\ [][NextOwner]_vars

\* ------------------------------------------------------ the registry scenarios
\* the steps of an upgrade after its request
UpgradeSteps ==
    \/ \E c \in Conns : MwCheckPassword(c)
    \/ \E c \in Conns : MwState(c)
    \/ \E c \in Conns : MwIsFull(c)
    \/ \E c \in Conns : SvCreated(c)
    \/ \E c \in Conns : SvSetRegister(c)
    \/ \E c \in Conns : SvAccept(c)
    \/ \E c \in Conns : SvAddConn(c)

\* no lobby is registered under LobbyID yet
InitRegistry ==
    /\ lobbies \in {{}, {OtherID}}
    /\ state = LobbyStateCreated
    /\ owner = Empty
    /\ maxPlayers = -1
    /\ password = Empty
    /\ quiz = 1
    /\ question = 0
    /\ players = [c \in {} |-> NilPlayer]
    /\ doneCh = FALSE
    /\ conn = [c \in Conns |-> "none"]
    /\ http = [c \in Conns |-> NoHTTP]
    /\ pc = [c \in Conns |-> "idle"]
    /\ pwd = [c \in Conns |-> Empty]
    /\ req = [c \in Conns |-> NoReq]
    /\ loc = [c \in Conns |-> NoLocals]
    /\ out = [c \in Conns |-> <<>>]
    /\ sched = <<>>
    /\ rev = NoReview
    /\ lim = NewLimiter
    /\ locks = NoLocks
    /\ nevents = 0
    /\ jwtKey = <<>>
    /\ panicked = FALSE
    /\ reg = IdleReg
    /\ sup = [pc |-> "none", deadline |-> 0]
    /\ now = 0
    /\ prior = {}

RegistryRequests == {Request("register", 1, Empty, Empty), Request("start", Empty, Empty, Empty)}

\* lobbies are registered under drawn ids, the clock runs and the supervisor
\* of the lobby of LobbyID watches; no client comes
NextRegistry ==
    \/ Registration(TimeoutOptions, IDs)
    \/ SupTimeout
    \/ SupDelete
    \/ \E d \in Durations : Tick(d)

SpecRegistry == InitRegistry /\ [][NextRegistry]_vars

\* no client of the lobby is being served and no quiz is running
RegistryQuiet ==
    /\ \A c \in Conns : pc[c] \in {"idle", "done"}
    /\ \A k \in DOMAIN sched : sched[k].pc = "done"

\* every draw gives LobbyID: a lobby is registered under it, one client joins,
\* registers, starts the quiz and leaves, and once no client is being served
\* the next lobby is registered
NextRecycle ==
    \/ RegistryQuiet /\ Registration({-1, 0}, {LobbyID})
    \/ Supervisor
    \/ \E d \in Durations : Tick(d)
    \/ reg.pc = "idle" /\ Dial(1, Empty)
    \/ \E c \in Conns : MwCheckPassword(c)
    \/ \E c \in Conns : MwState(c)
    \/ \E c \in Conns : SvCreated(c)
    \/ \E c \in Conns : SvSetRegister(c)
    \/ \E c \in Conns : SvAccept(c)
    \/ \E c \in Conns : SvAddConn(c)
    \/ \E c \in Conns, r \in RegistryRequests : Send(c, r)
    \/ RegisterHandler
    \/ StartHandler
    \/ Scheduler
    \/ \E c \in Conns : ClientClose(c)
    \/ \E c \in Conns : Disconnect(c)
    \/ \E c \in Conns : DisconnectConn(c)
    \/ \E c \in Conns : DisconnectDelete(c)
    \/ \E c \in Conns : DisconnectBroadcast(c)
    \/ \E c \in Conns : DisconnectOwner(c)
    \/ \E c \in Conns : DisconnectList(c)
    \/ \E c \in Conns : DisconnectDeleteLobby(c)
    \/ QuizTeardown

InitRecycle == InitRegistry /\ lobbies = {}

SpecRecycle == InitRecycle /\ [][NextRecycle]_vars

\* the lobby of LobbyID has just been registered, with any RegisterTimeout
InitTimed ==
    /\ \E rt \in TimeoutOptions : Registered(rt)
    /\ maxPlayers = -1
    /\ password = Empty

\* two clients join the lobby, the first registers and starts the quiz, and
\* they leave, while the clock runs and the supervisor watches
NextSupervisor ==
    \/ Supervisor
    \/ \E d \in Durations : Tick(d)
    \/ \E c \in 1..2 : Dial(c, Empty)
    \/ UpgradeSteps
    \/ \E r \in RegistryRequests : Send(1, r)
    \/ RegisterHandler
    \/ StartHandler
    \/ Scheduler
    \/ \E c \in Conns : ClientClose(c)
    \/ \E c \in Conns : Disconnect(c)
    \/ \E c \in Conns : DisconnectConn(c)
    \/ \E c \in Conns : DisconnectDelete(c)
    \/ \E c \in Conns : DisconnectBroadcast(c)
    \/ \E c \in Conns : DisconnectOwner(c)
    \/ \E c \in Conns : DisconnectList(c)
    \/ \E c \in Conns : DisconnectDeleteLobby(c)
    \/ QuizTeardown

SpecSupervisor == InitTimed /\ [][NextSupervisor]_vars

\* ================================================================ properties
\* C1. Capacity: while the lobby is in Created or Register and has a capacity
\* (maxPlayers >= 0), the slots of the player map, registered and
\* unregistered together, never exceed maxPlayers.
C1_Capacity ==
    (state \in {LobbyStateCreated, LobbyStateRegister} /\ maxPlayers >= 0)
        => numConns <= maxPlayers

\* C9. Full lobby: an upgrade that NewLobby refuses because the lobby is full
\* is answered, before any upgrade, with HTTP 403 and the error 'too many
\* players', and it gets no slot.
C9_FullLobbyForbidden ==
    [][\A c \in Conns :
          (pc[c] = "mw_full" /\ pc'[c] = "done")
              => /\ http'[c] = [status |-> StatusForbidden, code |-> TooManyPlayersCode]
                 /\ conn'[c] = "none"
                 /\ c \notin DOMAIN players']_vars

\* C10. Password gate: CheckPassword refuses an upgrade exactly when the lobby
\* has a password and the request's p differs from it; the refusal is HTTP 401
\* with the error code 105, comes before any upgrade and gives no slot; with
\* the matching p, or with no password set, the request goes on to the state
\* check of NewLobby with nothing written, and no later step answers 401.
C10_PasswordGate ==
    [][\A c \in Conns :
          /\ (pc[c] = "mw_pwd" /\ pc'[c] # "mw_pwd")
                 => IF password # Empty /\ pwd[c] # password
                    THEN /\ pc'[c] = "done"
                         /\ http'[c] = [status |-> StatusUnauthorized,
                                        code |-> UnauthorizedErrorHTTPCode]
                    ELSE /\ pc'[c] = "mw_state"
                         /\ http'[c] = NoHTTP
          /\ (http'[c].status = StatusUnauthorized /\ http[c].status # StatusUnauthorized)
                 => pc[c] = "mw_pwd"
          /\ http'[c].status = StatusUnauthorized
                 => conn'[c] = "none" /\ c \notin DOMAIN players']_vars

\* a request refused for its password beside a connection upgraded to a lobby
\* that has a password
C10_Witness ==
    /\ password # Empty
    /\ \E c, d \in Conns :
          /\ http[c].status = StatusUnauthorized
          /\ http[d].status = StatusSwitchingProtocols
          /\ conn[d] = "open"

\* C2. Username uniqueness: no two players of the lobby have the same
\* username, in every reachable state.
C2_UniqueUsernames ==
    \A c, d \in DOMAIN players :
        (c # d /\ players[c] # NilPlayer /\ players[d] # NilPlayer)
            => players[c].username # players[d].username

\* C3. Owner invariant: when the lobby is in Register and its owner is not
\* empty, the owner is the username of a live registered player (looked at
\* when no operation is under way).
C3_OwnerIsLivePlayer ==
    (LobbyID \in lobbies /\ state = LobbyStateRegister /\ owner # Empty /\ Quiescent)
        => \E c \in LiveConns : players[c].username = owner

\* C4. Owner election: once the owner's connection has closed in Register
\* and its disconnect routine has run, if live players remain the owner is
\* one of them, the first of the sorted live player list; and no connection
\* is sent the new owner of an election before the disconnect of the former
\* owner.
C4_OwnerElection ==
    /\ []((Quiescent /\ LobbyID \in lobbies /\ state = LobbyStateRegister /\ LiveConns # {})
             => ~OwnerGone)
    /\ [][\A c \in Conns :
             (pc[c] = "disc_setowner" /\ pc'[c] = "disc_newowner")
                 => owner' = GetPlayerList[1]]_vars
    /\ [](\A c, d \in Conns : ~UpdateBefore(d, "new owner", "disconnect", c, "disconnect"))

\* C5. The last one out: once the owner's connection has closed in Register
\* and its disconnect routine has run, if no live player remains the lobby is
\* no longer in the registry.
C5_LobbyDeleted ==
    (Quiescent /\ state = LobbyStateRegister /\ OwnerGone /\ LiveConns = {})
        => LobbyID \notin lobbies

\* the steps of handleRegisterRequest after the player is bound: the register
\* response goes to the registering connection; the owner is read, and only
\* an empty owner is replaced, by the registrant, whose new owner update then
\* goes to every registered connection; with an owner set the handler returns
\* having changed and sent nothing more
RegisterOwnerSteps ==
    \A c \in Conns :
        /\ (pc[c] = "reg_reply" /\ pc'[c] # "reg_reply")
               => /\ pc'[c] = "reg_join"
                  /\ out' = WriteTo(out, c, Msg("register", Empty, "", c, "register"))
        /\ (pc[c] = "reg_owner" /\ pc'[c] # "reg_owner")
               => IF owner = Empty
                  THEN pc'[c] = "reg_setowner"
                  ELSE pc'[c] = "read" /\ owner' = owner /\ out' = out
        /\ (pc[c] = "reg_setowner" /\ pc'[c] # "reg_setowner")
               => owner' = req[c].user /\ pc'[c] = "reg_newowner"
        /\ (pc[c] = "reg_newowner" /\ pc'[c] # "reg_newowner")
               => \A d \in LiveConns :
                      conn[d] = "open"
                          => out'[d] = Append(out[d], Msg("playerUpdate", req[c].user,
                                                          "new owner", c, "register"))
        /\ (owner' # owner /\ pc[c] # pc'[c] /\ pc[c] \in {"reg_conn", "reg_exists", "reg_add",
                                                           "reg_reply", "reg_join", "reg_owner",
                                                           "reg_newowner"})
               => FALSE

\* on its own connection a registration's updates come after its register
\* response
ResponseFirst ==
    \A c \in Conns : \A j \in DOMAIN out[c] :
        (out[c][j].type = "playerUpdate" /\ out[c][j].by = c /\ out[c][j].cause = "register")
            => \E i \in 1..(j - 1) : out[c][i].type = "register"

C8_OwnerKick ==
    [][\A c \in Conns :
          /\ (pc[c] = "kick_delete" /\ pc'[c] # "kick_delete")
                 => IF getPlayer(req[c].user) = {}
                    THEN /\ out'[c] = Append(out[c], ErrorMsg(PlayerNotFoundErrorCode, c, "kick"))
                         /\ players' = players
                         /\ pc'[c] = "read"
                    ELSE /\ \E d \in getPlayer(req[c].user) :
                               players' = deleteConn(d) /\ conn'[d] = "closed"
                         /\ pc'[c] = "kick_reply"
          /\ (pc[c] = "kick_reply" /\ pc'[c] # "kick_reply")
                 => /\ out'[c] = Append(out[c], Msg("kick", Empty, "", c, "kick"))
                    /\ pc'[c] = "kick_bcast"
          /\ (pc[c] = "kick_bcast" /\ pc'[c] # "kick_bcast")
                 => \A d \in LiveConns :
                        conn[d] = "open"
                            => out'[d] = Append(out[d], Msg("playerUpdate", req[c].user,
                                                            "kick", c, "kick"))]_vars

\* C7. Owner-only requests: a kick, configure, start or review request that
\* reaches its handler from a connection with no player, or with a player
\* whose username is not the owner, is answered on that connection with the
\* error 209, and from its dispatch to that answer nothing changes in the
\* lobby: player map, owner, quiz, password, state, scheduler, registry.
C7_OwnerOnly ==
    [][\A c \in Conns :
          /\ (pc[c] = "read" /\ pc'[c] \in {"kick_conn", "cfg_conn", "start_conn", "rev_conn"})
                 => UNCHANGED <<lobbies, lobbyVars, schedVars, out>>
          /\ (pc[c] \in {"kick_conn", "cfg_conn", "start_conn", "rev_conn"} /\ pc'[c] # pc[c])
                 => /\ UNCHANGED <<lobbies, lobbyVars, schedVars>>
                    /\ IF c \notin DOMAIN players \/ players[c] = NilPlayer
                       THEN /\ pc'[c] = "read"
                            /\ out' = WriteTo(out, c, ErrorMsg(UnauthorizedErrorCode, c,
                                                               req[c].type))
                       ELSE pc'[c] # "read" /\ out' = out
          /\ (pc[c] \in {"kick_owner", "cfg_owner", "start_owner", "rev_owner"} /\ pc'[c] # pc[c])
                 => /\ UNCHANGED <<lobbies, lobbyVars, schedVars>>
                    /\ IF loc[c].user # owner
                       THEN /\ pc'[c] = "read"
                            /\ out' = WriteTo(out, c, ErrorMsg(UnauthorizedErrorCode, c,
                                                               req[c].type))
                       ELSE pc'[c] # "read" /\ out' = out]_vars

\* a registered player who is not the owner was answered 209 to a kick, beside
\* the owner, who is still a player
C7_Witness ==
    \E c, d \in LiveConns :
        /\ players[d].username = owner
        /\ players[c].username # owner
        /\ pc[c] = "read"
        /\ out[c][Len(out[c])] = ErrorMsg(UnauthorizedErrorCode, c, "kick")

DeleteReturns ==
    \/ sup.pc = "delete" /\ sup'.pc = "done"
    \/ \E c \in Conns : pc[c] \in {"disc_lobby", "dq_lobby"} /\ pc'[c] = "done"

\* C13. Delete: when Delete(id) returns, Get(id) finds no lobby; every
\* connection that was in the lobby's map is closed and Done is raised; and
\* the three happen in one step under the registry lock, so no state shows a
\* closed lobby that is still registered.
C13_Delete ==
    /\ [](doneCh => LobbyID \notin lobbies)
    /\ [][/\ DeleteReturns => LobbyID \notin lobbies'
          /\ (LobbyID \in lobbies /\ LobbyID \notin lobbies')
                => /\ \A c \in DOMAIN players : conn'[c] = "closed"
                   /\ doneCh']_vars

\* the departure of the owner has deleted the lobby and closed the connection
\* of a client that had not registered
C13_Witness ==
    /\ owner # Empty
    /\ sup.pc = "wait"
    /\ LobbyID \notin lobbies /\ doneCh
    /\ \E c \in DOMAIN players :
          players[c] = NilPlayer /\ conn[c] = "closed" /\ pc[c] = "read"

\* ---------------------------------------------------------- scenario: Close
\* a lobby with its supervisor, two clients that join and leave without
\* registering, and callers of the lobby's exported Close
NextClose ==
    \/ CloseCall
    \/ Supervisor
    \/ \E d \in Durations : Tick(d)
    \/ \E c \in 1..2 : Dial(c, Empty)
    \/ UpgradeSteps
    \/ \E c \in Conns : ClientClose(c)
    \/ \E c \in Conns : Disconnect(c)
    \/ \E c \in Conns : DisconnectConn(c)
    \/ \E c \in Conns : DisconnectDelete(c)

SpecClose == InitTimed /\ [][NextClose]_vars

\* C14. Close is idempotent: a call of Close on a lobby that is already closed
\* has no further effect, so no call of Close panics.
C14_CloseIdempotent ==
    ~panicked

\* C15. Register: a call either inserts its lobby under an id that was not in
\* the registry, leaving every other entry as it was, or, after 50 consecutive
\* draws that each collided with a registered id, returns the no-slot error
\* with the registry unchanged.
C15_RegisterFreshOrNoSlot ==
    [][/\ (reg.pc = "loop" /\ reg'.retries # reg.retries)
            => reg.id \in lobbies /\ reg'.retries = reg.retries - 1
       /\ (reg.pc = "lock" /\ reg'.pc # "lock") => reg'.retries = Retries
       /\ (reg.pc = "exit" /\ reg'.res = "noslot")
            => reg.retries = 0 /\ lobbies' = lobbies
       /\ (reg.pc = "exit" /\ reg'.res = "ok")
            => reg.id \notin lobbies /\ lobbies' = lobbies \cup {reg.id}
       /\ reg.pc = "loop" => lobbies' = lobbies]_vars

\* a first call has inserted its lobby and a second one has found no slot
C15_Witness ==
    /\ reg.res = "noslot"
    /\ reg.calls = 2
    /\ lobbies = IDs

\* keys of other lobbies: another salt, another first id, another second
OtherKeys ==
    {newLobbyTokenKey(s, i, t) : s \in {JWTSalt, "pepper"}, i \in IDs, t \in {0, MaxTime}}
        \ {jwtKey}

C17_RecycledRejects ==
    LobbyID \in lobbies => \A t \in prior : ~CheckToken(t).ok

\* the forward steps of a lobby's life
StateOrder ==
    {<<LobbyStateCreated, LobbyStateRegister>>, <<LobbyStateRegister, LobbyStateQuiz>>,
     <<LobbyStateQuiz, LobbyStateAnswers>>, <<LobbyStateAnswers, LobbyStateEnded>>}

\* C18. State order: the state of a lobby changes only one step forward along
\* Created, Register, Quiz, Answers, Ended, or from any state to Ended; once
\* Ended it never changes.
C18_StateOrder ==
    [][state' # state =>
          /\ state # LobbyStateEnded
          /\ <<state, state'>> \in StateOrder \/ state' = LobbyStateEnded]_vars

\* C19. Disconnect during the quiz: the disconnect routine of a registered
\* player that found the lobby in Quiz keeps the player in the map with
\* alive = FALSE, so that the player list no longer holds it; it then reads
\* the list: when no live player remains it sets the state to Ended and
\* deletes the lobby from the registry, otherwise it returns and changes
\* neither the state nor the registry.  No player that is not alive is ever
\* in the player list.
C19_QuizDisconnect ==
    /\ [](\A c \in DOMAIN players :
            (players[c] # NilPlayer /\ ~players[c].alive) => c \notin LiveConns)
    /\ [][\A c \in Conns :
            /\ (pc[c] = "dq_dead" /\ pc'[c] # "dq_dead" /\ c \in DOMAIN players)
                  => /\ c \in DOMAIN players'
                     /\ players'[c] = [players[c] EXCEPT !.alive = FALSE]
                     /\ c \notin LiveConns'
                     /\ pc'[c] = "dq_list"
            /\ (pc[c] = "dq_list" /\ pc'[c] # "dq_list")
                  => IF LiveConns = {}
                     THEN pc'[c] = "dq_ended"
                     ELSE pc'[c] = "done" /\ UNCHANGED <<state, lobbies, players>>
            /\ (pc[c] = "dq_ended" /\ pc'[c] # "dq_ended")
                  => state' = LobbyStateEnded /\ pc'[c] = "dq_lobby"
            /\ (pc[c] = "dq_lobby" /\ pc'[c] # "dq_lobby")
                  => LobbyID \notin lobbies' /\ pc'[c] = "done"]_vars

\* the last live player has left during the quiz: the lobby is Ended and
\* deleted, and the player is still in the map
C19_Witness ==
    /\ state = LobbyStateEnded
    /\ LobbyID \notin lobbies
    /\ LiveConns = {}
    /\ \E c \in DOMAIN players :
          players[c] # NilPlayer /\ ~players[c].alive /\ pc[c] = "done"

\* ---------------------------------------------------------- scenario: start
\* two clients join an open lobby, register and ask for the start
NextStart ==
    \/ \E c \in 1..2 : Dial(c, Empty)
    \/ UpgradeSteps
    \/ \E c \in 1..2, r \in RegistryRequests : Send(c, r)
    \/ RegisterHandler
    \/ StartHandler
    \/ Scheduler

SpecStart == InitOpen /\ [][NextStart]_vars

\* the start messages written to a connection
StartsOf(c) == {i \in DOMAIN out[c] : out[c][i].type = "start"}

\* C20. Start: when the start request of the owner has been served in
\* Register, the state is Quiz and every registered player has been sent
\* exactly one start message, whose token carries the player's own username
\* and the lobby's id; the question of index i is sent with id i.
C20_StartBroadcast ==
    /\ [](\A c \in Conns : Cardinality(StartsOf(c)) <= 1)
    /\ [](\A c \in Conns : \A i \in DOMAIN out[c] :
             out[c][i].type = "question" => out[c][i].user \in 0..(QuestionsOf(quiz) - 1))
    /\ [][\A c \in Conns :
            (pc[c] = "start_bcast" /\ pc'[c] # "start_bcast")
               => /\ state = LobbyStateQuiz
                  /\ \A d \in DOMAIN players :
                        (players[d] # NilPlayer /\ conn[d] = "open")
                           => \E i \in DOMAIN out'[d] :
                                 /\ out'[d][i].type = "start"
                                 /\ out'[d][i].token.username = players[d].username
                                 /\ out'[d][i].token.lobbyId = LobbyID
                                 /\ CheckToken(out'[d][i].token).ok]_vars

\* the ids of the questions written to a connection, in the order of writing
QuestionsSent(c) ==
    LET qs == SelectSeq(out[c], LAMBDA m : m.type = "question")
    IN [i \in DOMAIN qs |-> qs[i].user]

\* C21. Scheduler order: the questions are broadcast one at a time in index
\* order, so a connection is sent question 0, 1, ... each once; while
\* question i is played (broadcast, its time not yet elapsed) currentQuestion
\* is question i; a question is sent without its canonical answer; and when
\* the scheduler ends after the last question, currentQuestion is none and
\* the state is Answers (Review).
C21_SchedulerOrder ==
    /\ [](\A c \in Conns : \A i \in DOMAIN QuestionsSent(c) :
             i > 1 => QuestionsSent(c)[i] = QuestionsSent(c)[i - 1] + 1)
    /\ [](\A k \in DOMAIN sched :
             sched[k].pc = "wait" => question = sched[k].i + 1)
    /\ [](\A c \in Conns : \A i \in DOMAIN out[c] :
             out[c][i].type = "question" => out[c][i].action = "")
    /\ [][\A k \in DOMAIN sched :
             (sched[k].pc = "finish" /\ sched'[k].pc = "done")
                => question' = 0 /\ state' = LobbyStateAnswers]_vars

\* ----------------------------------------------------------- scenario: quiz
\* the owner and a second player are registered and the two-question quiz is
\* selected; the owner starts it, the players answer and leave
InitQuiz == Seated(2)

QuizRequests == {Request("start", Empty, Empty, Empty), Request("answer", Empty, Empty, Empty)}

NextQuiz ==
    \/ \E c \in 1..2, r \in QuizRequests : Send(c, r)
    \/ StartHandler
    \/ Scheduler
    \/ AnswerHandler
    \/ Teardown
    \/ QuizTeardown

SpecQuiz == InitQuiz /\ [][NextQuiz]_vars

\* ----------------------------------------------------------------- the review
\* The questions of the second quiz are over: the owner answered the first,
\* the second player both, and a third player who answered the first question
\* left during the quiz. The owner and the second player send review requests
\* until the lobby ends or is closed.
InitReview ==
    /\ lobbies = {LobbyID}
    /\ state = LobbyStateAnswers
    /\ owner = 1
    /\ maxPlayers = -1
    /\ password = Empty
    /\ quiz = 2
    /\ question = 0
    /\ players = [c \in Conns |->
                    CASE c = 1 -> [NewPlayer(1) EXCEPT !.answers = {0}]
                      [] c = 2 -> [NewPlayer(2) EXCEPT !.answers = 0..(QuestionsOf(2) - 1)]
                      [] OTHER -> [NewPlayer(c) EXCEPT !.answers = {0}, !.alive = FALSE]]
    /\ doneCh = FALSE
    /\ conn = [c \in Conns |-> IF c \in {1, 2} THEN "open" ELSE "closed"]
    /\ http = [c \in Conns |-> [status |-> StatusSwitchingProtocols, code |-> 0]]
    /\ pc = [c \in Conns |-> IF c \in {1, 2} THEN "read" ELSE "done"]
    /\ pwd = [c \in Conns |-> Empty]
    /\ req = [c \in Conns |-> NoReq]
    /\ loc = [c \in Conns |-> NoLocals]
    /\ out = [c \in Conns |-> <<>>]
    /\ sched = <<[pc |-> "done", i |-> QuestionsOf(2), n |-> QuestionsOf(2)]>>
    /\ rev = NoReview
    /\ lim = NewLimiter
    /\ locks = NoLocks
    /\ nevents = 0
    /\ jwtKey = newLobbyTokenKey(JWTSalt, LobbyID, 0)
    /\ panicked = FALSE
    /\ reg = [IdleReg EXCEPT !.id = LobbyID, !.rt = RegisterTimeout(0), !.res = "ok",
                             !.calls = 1]
    /\ sup = [pc |-> "done", deadline |-> RegisterTimeout(0)]
    /\ now = 0
    /\ prior = {}

\* review{validate}: 1 validates the answer, 0 rejects it
ReviewRequests == {Request("review", v, Empty, Empty) : v \in {0, 1}}

NextReview ==
    \/ \E c \in 1..2, r \in ReviewRequests : Send(c, r)
    \/ ReviewHandler
    \/ ReviewTask
    \/ CloseCall
    \/ \E c \in Conns : ClientClose(c)
    \/ \E c \in Conns : Disconnect(c)

SpecReview == InitReview /\ [][NextReview]_vars

\* the decisions taken on the answers of player c that validated them
Validated(c) == {i \in DOMAIN rev.log : rev.log[i].c = c /\ rev.log[i].validate}

InitLimiter == Seated(1)

NextLimiter ==
    \/ \E a \in Callers : Allow(a)
    \/ \E a \in Callers : Slots(a)
    \/ \E a \in Callers : WaitCall(a)
    \/ WaitFire
    \/ WaitCancel
    \/ LimTick

SpecLimiter == InitLimiter /\ [][NextLimiter]_vars

\* the records of h that lie within [t - window, t]
Within(h, t) == SelectSeq(h, LAMBDA x : t - window <= x /\ x <= t)

\* C25. Limiter invariant: the number of records within [now - window, now]
\* never exceeds limit; a record exactly window old counts.
C25_LimiterInvariant == Len(Within(lim.history, lim.now)) <= limit

\* C26. Allow returns true exactly when fewer than limit records are not older
\* than window; it then appends one record with the current time to those
\* records, and appends none when it returns false.
C26_Allow ==
    [][(lim'.last.id # lim.last.id /\ lim'.last.op = "Allow") =>
          /\ lim'.last.ok = (Len(Within(lim.history, lim.now)) < limit)
          /\ lim'.history = IF lim'.last.ok
                            THEN Append(Within(lim.history, lim.now), lim.now)
                            ELSE Within(lim.history, lim.now)]_vars

\* an Allow was admitted after the earlier records had been evicted
C26_Witness ==
    /\ lim.last.op = "Allow" /\ lim.last.ok
    /\ lim.calls > Len(lim.history)
    /\ lim.now > window
    /\ lim.history = <<lim.now>>

\* C27. Wait: with limit live records it does not return before the clock
\* reaches history[0] + window, and when it returns nil then it has recorded
\* the request; cancelled first, it returns the context's error and records
\* nothing; with a free slot it returns nil without blocking.
C27_Wait ==
    [][/\ (lim.waiter = 0 /\ lim'.waiter # 0) =>
              /\ Len(Within(lim.history, lim.now)) >= limit
              /\ lim'.last = lim.last /\ lim'.history = lim.history
       /\ (lim.waiter = 0 /\ lim'.last.id # lim.last.id /\ lim'.last.op = "Wait") =>
              /\ Len(Within(lim.history, lim.now)) < limit
              /\ lim'.last.err = "nil" /\ ~lim'.last.blocked
       /\ (lim.waiter # 0 /\ lim'.waiter = 0) =>
              /\ lim'.last.id # lim.last.id /\ lim'.last.op = "Wait"
              /\ lim'.last.err \in {"nil", "ctx"}
              /\ lim'.last.err = "nil" =>
                    /\ lim.now >= Within(lim.history, lim.since)[1] + window
                    /\ lim'.history = Append(lim.history, lim.now)
              /\ lim'.last.err = "ctx" => lim'.history = lim.history]_vars

\* a Wait that found limit live records returned nil after the oldest expired
C27_Witness ==
    /\ lim.last.op = "Wait" /\ lim.last.blocked /\ lim.last.err = "nil"
    /\ lim.now >= window
    /\ lim.history[Len(lim.history)] = lim.now

\* C28. Throttling is per connection: what the limiter answers connection 1
\* is what it would answer if connection 1 were its only caller.
C28_PerConnection == ~lim.differ

\* -------------------------------------------------------------- the dispatch
\* The owner is alone in a lobby with the second quiz selected, and a second
\* client has passed the middleware: its handler is about to accept the
\* websocket and read the state. The owner starts the quiz and leaves; both
\* clients send requests.
InitLate ==
    /\ lobbies = {LobbyID}
    /\ state = LobbyStateRegister
    /\ owner = 1
    /\ maxPlayers = -1
    /\ password = Empty
    /\ quiz = 2
    /\ question = 0
    /\ players = [c \in {1} |-> NewPlayer(1)]
    /\ doneCh = FALSE
    /\ conn = [c \in Conns |-> IF c = 1 THEN "open" ELSE "none"]
    /\ http = [c \in Conns |-> IF c = 1 THEN [status |-> StatusSwitchingProtocols, code |-> 0]
                                          ELSE NoHTTP]
    /\ pc = [c \in Conns |-> CASE c = 1 -> "read" [] c = 2 -> "sv_accept" [] OTHER -> "idle"]
    /\ pwd = [c \in Conns |-> Empty]
    /\ req = [c \in Conns |-> NoReq]
    /\ loc = [c \in Conns |-> NoLocals]
    /\ out = [c \in Conns |->
                IF c = 1 THEN <<Msg("lobby", Empty, "", 1, "banner"),
                                Msg("register", Empty, "", 1, "register"),
                                Msg("playerUpdate", 1, "join", 1, "register"),
                                Msg("playerUpdate", 1, "new owner", 1, "register")>>
                         ELSE <<>>]
    /\ sched = <<>>
    /\ rev = NoReview
    /\ lim = NewLimiter
    /\ locks = NoLocks
    /\ nevents = 0
    /\ jwtKey = newLobbyTokenKey(JWTSalt, LobbyID, 0)
    /\ panicked = FALSE
    /\ reg = [IdleReg EXCEPT !.id = LobbyID, !.rt = RegisterTimeout(0), !.res = "ok",
                             !.calls = 1]
    /\ sup = [pc |-> "done", deadline |-> RegisterTimeout(0)]
    /\ now = 0
    /\ prior = {}

DispatchRequests ==
    {Request("start", Empty, Empty, Empty), Request("review", 1, Empty, Empty)}

NextDispatch ==
    \/ \E c \in 1..2 : SvAccept(c)
    \/ \E c \in 1..2 : SvAddConn(c)
    \/ \E c \in 1..2, r \in DispatchRequests : Send(c, r)
    \/ StartHandler
    \/ Scheduler
    \/ \E c \in Conns : ClientClose(c)
    \/ \E c \in Conns : Disconnect(c)
    \/ \E c \in Conns : DisconnectConn(c)
    \/ \E c \in Conns : DisconnectDelete(c)
    \/ \E c \in Conns : DisconnectBroadcast(c)
    \/ \E c \in Conns : DisconnectOwner(c)
    \/ \E c \in Conns : DisconnectList(c)
    \/ \E c \in Conns : DisconnectDeleteLobby(c)
    \/ QuizTeardown

SpecDispatch == InitLate /\ [][NextDispatch]_vars

\* ------------------------------------------------------- registering again
\* Two registered players send register requests with their own, each
\* other's, a fresh and an invalid username, while the owner may kick and
\* connections close
RebindRequests ==
    {Request("register", u, Empty, Empty) : u \in {Empty, 1, 2, MaxUsers + 1}}
    \cup {Request("kick", 2, Empty, Empty)}

NextRebind ==
    \/ \E c \in 1..2, r \in RebindRequests : Send(c, r)
    \/ \E c \in Conns : RegisterConn(c)
    \/ \E c \in Conns : RegisterExists(c)
    \/ \E c \in Conns : RegisterAdd(c)
    \/ \E c \in Conns : RegisterReply(c)
    \/ \E c \in Conns : RegisterJoin(c)
    \/ \E c \in Conns : RegisterOwner(c)
    \/ KickHandler
    \/ Teardown

SpecRebind == InitSeated /\ [][NextRebind]_vars

\* C30. A register request on a connection that is bound to a player is
\* answered with PlayerAlreadyRegistered (204) and leaves the player map, the
\* owner and the bound player's username as they were, whatever username it
\* carries.
C30_RegisterAgain ==
    [][\A c \in Conns :
          (/\ pc[c] = "reg_conn" /\ pc'[c] # "reg_conn"
           /\ c \in DOMAIN players /\ players[c] # NilPlayer) =>
              /\ pc'[c] = "read"
              /\ players' = players
              /\ owner' = owner
              /\ conn[c] = "open" =>
                    /\ Len(out'[c]) = Len(out[c]) + 1
                    /\ out'[c][Len(out'[c])].type = "error"
                    /\ out'[c][Len(out'[c])].user = PlayerAlreadyRegisteredCode]_vars

\* both registered players sent a register request and were refused
C30_Witness ==
    \A c \in 1..2 :
        /\ pc[c] = "read" /\ conn[c] = "open"
        /\ c \in DOMAIN players /\ players[c] = NewPlayer(c)
        /\ owner = 1
        /\ out[c][Len(out[c])].type = "error"
        /\ out[c][Len(out[c])].user = PlayerAlreadyRegisteredCode

\* C29. Unaccepted requests: in every state a well-formed request whose type
\* the state does not accept is answered to its sender with an error of code
\* InvalidRequest (201) and changes nothing in the lobby; none is dropped.
C29_UnacceptedRejected ==
    [][(nevents' = nevents + 1 /\ conn' = conn /\ pc' = pc) =>
          /\ UNCHANGED lobbyVars
          /\ \E c \in Conns :
                /\ Len(out'[c]) = Len(out[c]) + 1
                /\ SubSeq(out'[c], 1, Len(out[c])) = out[c]
                /\ out'[c][Len(out'[c])].type = "error"
                /\ out'[c][Len(out'[c])].user = InvalidRequestCode
                /\ out'[c][Len(out'[c])].by = c]_vars

\* C22. Scheduler cancellation: once the lobby's Done signal is raised or the
\* state is Ended, no step of a running scheduler writes to a connection or
\* changes currentQuestion or the state.
C22_SchedulerCancelled ==
    [][((doneCh \/ state = LobbyStateEnded) /\ Len(sched') = Len(sched) /\ sched' # sched)
          => (out' = out /\ question' = question /\ state' = state)]_vars

\* C23. Answers are written in Quiz only: a step that records an answer of a
\* player is taken while the state is Quiz and a question is current, and it
\* records the answer against the id of that question.
C23_AnswersOnlyInQuiz ==
    [][\A c \in DOMAIN players :
          (c \in DOMAIN players' /\ players'[c].answers # players[c].answers)
             => /\ state = LobbyStateQuiz
                /\ question # 0
                /\ players'[c].answers = players[c].answers \cup {question - 1}]_vars


\* the usernames of the registered players of the map m
NamesIn(m) == {m[d].username : d \in {e \in DOMAIN m : m[e] # NilPlayer}}

\* C31. Departure in Register: the disconnect routine of a registered player
\* who is not the owner removes its slot and nothing else, the username is no
\* longer among the players, every remaining registered connection is sent
\* playerUpdate{username, disconnect}, and the owner is unchanged; the routine
\* of an unregistered connection removes its slot and broadcasts nothing.
C31_Departure ==
    [][\A c \in Conns :
          /\ (pc[c] = "disc_delete" /\ pc'[c] # "disc_delete") =>
                /\ DOMAIN players' = DOMAIN players \ {c}
                /\ \A d \in DOMAIN players' : players'[d] = players[d]
                /\ owner' = owner /\ out' = out
                /\ loc[c].user = Empty => pc'[c] = "done"
                /\ (loc[c].user # Empty /\ loc[c].user # owner) =>
                      loc[c].user \notin NamesIn(players')
          /\ (pc[c] = "disc_bcast" /\ pc'[c] # "disc_bcast") =>
                /\ UNCHANGED lobbyVars
                /\ \A d \in Conns :
                      IF d \in DOMAIN players /\ players[d] # NilPlayer /\ conn[d] = "open"
                      THEN out'[d] = Append(out[d], Msg("playerUpdate", loc[c].user,
                                                        "disconnect", c, "disconnect"))
                      ELSE out'[d] = out[d]
          /\ (pc[c] = "disc_owner" /\ pc'[c] # "disc_owner" /\ owner # loc[c].user) =>
                pc'[c] = "done" /\ out' = out /\ UNCHANGED lobbyVars]_vars

\* ------------------------------------------------------------ the departures
\* The owner is registered and two more clients have joined the lobby without
\* registering yet; they register, and connections close.
InitJoined ==
    /\ lobbies = {LobbyID}
    /\ state = LobbyStateRegister
    /\ owner = 1
    /\ maxPlayers = -1
    /\ password = Empty
    /\ quiz = 1
    /\ question = 0
    /\ players = [c \in 1..3 |-> IF c = 1 THEN NewPlayer(1) ELSE NilPlayer]
    /\ doneCh = FALSE
    /\ conn = [c \in Conns |-> IF c \in 1..3 THEN "open" ELSE "none"]
    /\ http = [c \in Conns |-> IF c \in 1..3
                               THEN [status |-> StatusSwitchingProtocols, code |-> 0]
                               ELSE NoHTTP]
    /\ pc = [c \in Conns |-> IF c \in 1..3 THEN "read" ELSE "idle"]
    /\ pwd = [c \in Conns |-> Empty]
    /\ req = [c \in Conns |-> NoReq]
    /\ loc = [c \in Conns |-> NoLocals]
    /\ out = [c \in Conns |->
                CASE c = 1 -> <<Msg("lobby", Empty, "", 1, "banner"),
                                Msg("register", Empty, "", 1, "register"),
                                Msg("playerUpdate", 1, "join", 1, "register"),
                                Msg("playerUpdate", 1, "new owner", 1, "register")>>
                  [] c \in 2..3 -> <<Msg("lobby", Empty, "", c, "banner")>>
                  [] OTHER -> <<>>]
    /\ sched = <<>>
    /\ rev = NoReview
    /\ lim = NewLimiter
    /\ locks = NoLocks
    /\ nevents = 0
    /\ jwtKey = newLobbyTokenKey(JWTSalt, LobbyID, 0)
    /\ panicked = FALSE
    /\ reg = [IdleReg EXCEPT !.id = LobbyID, !.rt = RegisterTimeout(0), !.res = "ok",
                             !.calls = 1]
    /\ sup = [pc |-> "wait", deadline |-> RegisterTimeout(0)]
    /\ now = 0
    /\ prior = {}

JoinedRequests == {Request("register", 2, Empty, Empty)}

NextDeparture ==
    \/ \E c \in 2..3, r \in JoinedRequests : Send(c, r)
    \/ \E c \in Conns : RegisterConn(c)
    \/ \E c \in Conns : RegisterExists(c)
    \/ \E c \in Conns : RegisterAdd(c)
    \/ \E c \in Conns : RegisterReply(c)
    \/ \E c \in Conns : RegisterJoin(c)
    \/ \E c \in Conns : RegisterOwner(c)
    \/ Teardown

SpecDeparture == InitJoined /\ [][NextDeparture]_vars

\* ------------------------------------------------------------ configuration
\* The owner and the other player of a seated lobby send configure requests
\* with and without a quiz, known or not, and with and without a password
ConfigureRequests ==
    {Request("configure", Empty, q, p) : q \in {Empty, UnknownQuiz} \cup Quizzes,
                                          p \in {Empty} \cup Passwords}

NextConfigure ==
    \/ \E c \in 1..2, r \in ConfigureRequests : Send(c, r)
    \/ ConfigureHandler
    \/ ConfigureQuizHandler
    \/ \E c \in Conns : ConfigureSetPassword(c)
    \/ \E c \in Conns : ClientClose(c)

SpecConfigure == InitSeated /\ [][NextConfigure]_vars

\* C32. Configure from the owner: an unknown quiz is answered with
\* QuizNotFound (211) and neither the quiz nor the password changes;
\* otherwise the quiz and the password that were given are set, the owner is
\* sent a configure response, and configure{quiz} is broadcast exactly when a
\* quiz was given.
C32_Configure ==
    [][\A c \in Conns :
          /\ (pc[c] \in {"cfg_conn", "cfg_owner", "cfg_load"} /\ pc'[c] # pc[c]) =>
                /\ quiz' = quiz /\ password' = password
                /\ (pc[c] = "cfg_owner" /\ pc'[c] # "read") =>
                      pc'[c] = "cfg_load" <=> req[c].quiz # Empty
                /\ pc[c] = "cfg_load" =>
                      IF req[c].quiz \in Quizzes
                      THEN pc'[c] # "read" /\ out' = out
                      ELSE /\ pc'[c] = "read"
                           /\ out' = WriteTo(out, c, ErrorMsg(QuizNotFoundErrorCode, c,
                                                              "configure"))
          /\ (pc[c] = "cfg_reply" /\ pc'[c] # pc[c]) =>
                /\ req[c].quiz # Empty => quiz = req[c].quiz
                /\ req[c].pw # Empty => password = req[c].pw
                /\ req[c].quiz = Empty /\ req[c].pw = Empty => UNCHANGED lobbyVars
                /\ out' = WriteTo(out, c, Msg("configure", Empty, "", c, "configure"))
                /\ pc'[c] = "read" <=> req[c].quiz = Empty
          /\ (pc[c] = "cfg_bcast" /\ pc'[c] # pc[c]) =>
                /\ req[c].quiz # Empty /\ pc'[c] = "read"
                /\ out' = Broadcast(out, Msg("configure", req[c].quiz, "", c, "configure"))]_vars

\* the owner has set the second quiz and a password, and the other player was
\* told of the quiz
C32_Witness ==
    /\ quiz = 2 /\ password = 1
    /\ pc[1] = "read"
    /\ Len(out[2]) > 0
    /\ out[2][Len(out[2])] = Msg("configure", 2, "", 1, "configure")

\* ------------------------------------------------------- the supervisor ends
\* The supervisor is a goroutine of its own: it is scheduled for as long as
\* one of its select cases is ready or its Delete can take the registry lock
FairClose == SpecClose /\ WF_vars(Supervisor)

\* C33. The supervisor of a registered lobby terminates: once the lobby's Done
\* is raised or its register timeout has passed, the supervisor ends, and it
\* handles the timeout at most once; an ended supervisor stays ended.
C33_SupervisorEnds ==
    /\ (doneCh \/ now >= sup.deadline) ~> sup.pc = "done"
    /\ [][/\ sup.pc = "done" => sup'.pc = "done"
          /\ sup.pc = "delete" => sup'.pc \in {"delete", "done"}
          /\ (sup.pc = "wait" /\ sup'.pc = "delete") =>
                now >= sup.deadline /\ state \in {LobbyStateCreated, LobbyStateRegister}]_vars

\* the lobby was closed before its register timeout and the supervisor ended
C33_Witness ==
    /\ sup.pc = "done"
    /\ doneCh
    /\ now < sup.deadline

\* ------------------------------------------------------------- read errors
\* readRequest on a frame that is not a request (or on a transport error that
\* is not a close): CloseStatus(err) = -1, so one InvalidRequest error is
\* written, the error is returned and ServeHTTP returns into its deferred
\* handleDisconnect
ReadErrorSilent(c) ==
    /\ pc[c] = "read"
    /\ conn[c] = "open"
    /\ nevents < MaxEvents
    /\ nevents' = nevents + 1
    /\ pc' = [pc EXCEPT ![c] = "failed"]
    /\ UNCHANGED <<registryVars, lobbyVars, conn, http, pwd, req, loc, out, schedVars>>

ReadError(c) ==
    /\ pc[c] = "read"
    /\ conn[c] = "open"
    /\ nevents < MaxEvents
    /\ nevents' = nevents + 1
    /\ out' = WriteTo(out, c, ErrorMsg(InvalidRequestCode, c, "unknown"))
    /\ pc' = [pc EXCEPT ![c] = "failed"]
    /\ UNCHANGED <<registryVars, lobbyVars, conn, http, pwd, req, loc, schedVars>>

NextReadError ==
    \/ \E c \in 1..2, r \in QuizRequests : Send(c, r)
    \/ \E c \in 1..2 : ReadError(c)
    \/ StartHandler
    \/ Scheduler
    \/ AnswerHandler
    \/ Teardown
    \/ QuizTeardown

SpecReadError == InitQuiz /\ [][NextReadError]_vars

\* the labels of handleDisconnect
DisconnectLabels ==
    {"disc_conn", "disc_delete", "disc_bcast", "disc_owner", "disc_list", "disc_lobby",
     "disc_setowner", "disc_newowner", "dq_conn", "dq_dead", "dq_list", "dq_ended",
     "dq_lobby"}

\* where handleDisconnect starts for the state it reads
DisconnectEntry ==
    CASE state \in {LobbyStateCreated, LobbyStateRegister} -> "disc_conn"
      [] state = LobbyStateQuiz -> "dq_conn"
      [] OTHER -> "done"

\* the InvalidRequest errors that readRequest wrote to connection c
ReadErrorsSent(c) ==
    {i \in 1..Len(out[c]) : out[c][i] = ErrorMsg(InvalidRequestCode, c, "unknown")}

\* C34. A read error ends the connection loop: after a close of the
\* connection the handler leaves the loop without writing anything; on any
\* other read error it writes one error 201 to the connection and leaves the
\* loop; in both cases the next step of the handler is the entry of the
\* disconnect routine for the state the lobby is in at that moment, and the
\* routine is entered once: a handler inside it or past it never reads again.
C34_ReadErrors ==
    /\ [](\A c \in Conns : Cardinality(ReadErrorsSent(c)) <= 1)
    /\ [][\A c \in Conns :
            /\ (pc[c] = "read" /\ pc'[c] = "failed") =>
                  /\ conn[c] = "open"
                  /\ out' = [out EXCEPT ![c] =
                               Append(@, ErrorMsg(InvalidRequestCode, c, "unknown"))]
                  /\ UNCHANGED lobbyVars
            /\ (pc[c] = "read" /\ conn[c] = "closed" /\ pc'[c] # "read") =>
                  out' = out /\ pc'[c] = DisconnectEntry
            /\ (pc[c] = "failed" /\ pc'[c] # "failed") =>
                  out' = out /\ pc'[c] = DisconnectEntry /\ conn'[c] = "closed"
            /\ (pc[c] = "read" /\ pc'[c] \in DisconnectLabels \cup {"done"}) =>
                  conn[c] = "closed"
            /\ pc[c] \in DisconnectLabels => pc'[c] \in DisconnectLabels \cup {"done"}
            /\ pc[c] = "done" => pc'[c] = "done"]_vars

\* during the quiz a player sent a frame that is no request: it was sent the
\* error, its connection is closed and its disconnect routine has ended
C34_Witness ==
    /\ state = LobbyStateQuiz
    /\ pc[2] = "done"
    /\ conn[2] = "closed"
    /\ Cardinality(ReadErrorsSent(2)) = 1
    /\ players[2] # NilPlayer /\ ~players[2].alive

\* ------------------------------------------------- iterating a player's answers
\* Player.AllAnswers: RLock, defer RUnlock, return the iterator: the read lock
\* is released when AllAnswers returns, before the iterator is first resumed
AllAnswers(c) ==
    /\ rev.iter.pc = "idle"
    /\ state = LobbyStateAnswers
    /\ c \in DOMAIN players /\ players[c] # NilPlayer
    /\ rev' = [rev EXCEPT !.iter = [@ EXCEPT !.pc = "range", !.of = c]]
    /\ UNCHANGED <<registryVars, lobbyVars, handlerVars, conn, sched, lim, locks, nevents>>

\* one turn of `for i, answer := range p.answers` with a pair to yield: the
\* loop reads the map of the player without a lock
AllAnswersYield ==
    /\ rev.iter.pc = "range"
    /\ rev.iter.of \in DOMAIN players
    /\ LET a == players[rev.iter.of].answers
       IN \E q \in a \ rev.iter.yielded :
             rev' = [rev EXCEPT !.iter =
                        [@ EXCEPT !.yielded = @ \cup {q},
                                  !.first = IF rev.iter.yielded = {} THEN a ELSE @,
                                  !.dirty = @ \/ (rev.iter.yielded # {} /\ a # rev.iter.first)]]
    /\ UNCHANGED <<registryVars, lobbyVars, handlerVars, conn, sched, lim, locks, nevents>>

\* the range loop ends: every entry that was in the map when the loop began
\* has been yielded; an entry created during the loop may have been skipped
AllAnswersEnd ==
    /\ rev.iter.pc = "range"
    /\ rev.iter.of \in DOMAIN players
    /\ LET a == players[rev.iter.of].answers
       IN (IF rev.iter.yielded = {} THEN a ELSE rev.iter.first) \subseteq rev.iter.yielded
    /\ rev' = [rev EXCEPT !.iter = [@ EXCEPT !.pc = "done"]]
    /\ UNCHANGED <<registryVars, lobbyVars, handlerVars, conn, sched, lim, locks, nevents>>

\* the runtime detects a map written while it is iterated and ends the
\* program ("concurrent map iteration and map write")
AllAnswersFatal ==
    /\ rev.iter.pc = "range"
    /\ rev.iter.of \in DOMAIN players
    /\ rev.iter.yielded # {}
    /\ players[rev.iter.of].answers # rev.iter.first
    /\ rev' = [rev EXCEPT !.iter = [@ EXCEPT !.pc = "done"]]
    /\ panicked' = TRUE
    /\ UNCHANGED <<registryVars, state, owner, fixedVars, password, quiz, question, players,
                   doneCh, handlerVars, conn, sched, lim, locks, nevents>>

NextIterate ==
    \/ \E c \in 1..2, r \in QuizRequests : Send(c, r)
    \/ StartHandler
    \/ Scheduler
    \/ AnswerHandler
    \/ \E c \in Conns : AllAnswers(c)
    \/ AllAnswersYield
    \/ AllAnswersEnd
    \/ AllAnswersFatal

SpecIterate == InitQuiz /\ [][NextIterate]_vars

\* C35. One iteration of AllAnswers runs under the player's read guard from
\* its first pair to its last: no pair after the first is yielded from a map
\* that a RegisterAnswer on the same player has changed since the first pair.
C35_GuardedIteration ==
    ~rev.iter.dirty

\* ------------------------------------------ unregistered slots after the start
NextTornDown ==
    \/ Send(1, Request("start", Empty, Empty, Empty))
    \/ StartHandler
    \/ Scheduler
    \/ \E c \in Conns : ClientClose(c)
    \/ \E c \in Conns : Disconnect(c)
    \/ \E c \in Conns : DisconnectConn(c)
    \/ \E c \in Conns : DisconnectDelete(c)
    \/ \E c \in Conns : DisconnectBroadcast(c)
    \/ \E c \in Conns : DisconnectOwner(c)
    \/ \E c \in Conns : DisconnectList(c)
    \/ \E c \in Conns : DisconnectDeleteLobby(c)
    \/ QuizTeardown

SpecTornDown == InitJoined /\ [][NextTornDown]_vars

\* C36. After a successful start, once the handlers of the connections that
\* the start closed have run their disconnect routine, the connection map
\* holds no slot without a Player.
C36_NoUnregisteredSlot ==
    (/\ state \in {LobbyStateQuiz, LobbyStateAnswers, LobbyStateEnded}
     /\ \A c \in Conns : pc[c] \in {"idle", "read", "done"}
     /\ \A c \in Conns : conn[c] = "closed" => pc[c] = "done")
    => \A c \in DOMAIN players : players[c] # NilPlayer

\* ------------------------------------------- a later lobby under the same id
\* lobbies.Register, from l.mu.Lock() to the insertion, when newLobbyID draws
\* the id of the deleted lobby: the id is free, the new lobby is inserted
RegisterLater ==
    /\ ~Locked
    /\ LobbyID \notin lobbies
    /\ LaterLobby \notin lobbies
    /\ ~PriorOver
    /\ lobbies' = lobbies \cup {LaterLobby}
    /\ UNCHANGED <<regTasks, lobbyVars, conn, handlerVars, schedVars, nevents>>

NextLater ==
    \/ \E d \in Durations : Tick(d)
    \/ SupDone
    \/ SupTimeout
    \/ SupDelete
    \/ RegisterLater
    \/ \E c \in Conns : ClientClose(c)
    \/ \E c \in Conns : Disconnect(c)
    \/ \E c \in Conns : DisconnectConn(c)
    \/ \E c \in Conns : DisconnectDelete(c)
    \/ \E c \in Conns : DisconnectBroadcast(c)
    \/ \E c \in Conns : DisconnectOwner(c)
    \/ \E c \in Conns : DisconnectList(c)
    \/ \E c \in Conns : DisconnectDeleteLobby(c)
    \/ \E c \in Conns : DisconnectSetOwner(c)
    \/ \E c \in Conns : DisconnectNewOwner(c)

SpecLater == InitSeated /\ [][NextLater]_vars

\* C37. A Delete issued on behalf of one lobby, by its supervisor or by the
\* disconnect routine of one of its connections, never removes a different
\* lobby that was registered later under the same id.
C37_DeleteOwnLobby ==
    [][(LaterLobby \in lobbies) => (LaterLobby \in lobbies')]_vars

\* ------------------------------------------------------------ the lock order
\* The locks: lobbies.mu, Lobby.mu and Player.mu, all sync.RWMutex
LockRank(x) == CASE x = "registry" -> 1 [] x = "lobby" -> 2 [] x = "player" -> 3

\* The locking of the methods, in the order of their code: Get (RLock of the
\* registry), Register (Lock of the registry), Delete (Lock of the registry,
\* then Lobby.Close under the lobby's Lock), the readers of the lobby (State,
\* Owner, Broadcast, ...), its writers (SetState, SetOwner, AddConn,
\* DeletePlayerByConn, ...), GetPlayerList (RLock of the lobby, then
\* Player.Alive under the player's RLock), ReplacePlayerConn (Lock of the
\* lobby, then Player.Connect under the player's Lock), the writers of a
\* player (Disconnect, RegisterAnswer, AddScore) and its readers (Alive)
LockStepsUnordered(op) ==
    CASE op = "Get" -> << <<"RLock", "registry">>, <<"RUnlock", "registry">> >>
      [] op = "Register" -> << <<"Lock", "registry">>, <<"Unlock", "registry">> >>
      [] op = "Delete" -> << <<"Lock", "registry">>, <<"Lock", "lobby">>,
                             <<"Unlock", "lobby">>, <<"Unlock", "registry">> >>
      [] op = "State" -> << <<"RLock", "lobby">>, <<"RUnlock", "lobby">> >>
      [] op = "SetState" -> << <<"Lock", "lobby">>, <<"Unlock", "lobby">> >>
      [] op = "GetPlayerList" -> << <<"RLock", "player">>, <<"RLock", "lobby">>,
                                    <<"RUnlock", "lobby">>, <<"RUnlock", "player">> >>
      [] op = "ReplacePlayerConn" -> << <<"Lock", "lobby">>, <<"Lock", "player">>,
                                        <<"Unlock", "player">>, <<"Unlock", "lobby">> >>
      [] op = "Disconnect" -> << <<"Lock", "player">>, <<"Unlock", "player">> >>
      [] op = "Alive" -> << <<"RLock", "player">>, <<"RUnlock", "player">> >>

LockSteps(op) ==
    CASE op = "Get" -> << <<"RLock", "registry">>, <<"RUnlock", "registry">> >>
      [] op = "Register" -> << <<"Lock", "registry">>, <<"Unlock", "registry">> >>
      [] op = "Delete" -> << <<"Lock", "registry">>, <<"Lock", "lobby">>,
                             <<"Unlock", "lobby">>, <<"Unlock", "registry">> >>
      [] op = "State" -> << <<"RLock", "lobby">>, <<"RUnlock", "lobby">> >>
      [] op = "SetState" -> << <<"Lock", "lobby">>, <<"Unlock", "lobby">> >>
      [] op = "GetPlayerList" -> << <<"RLock", "lobby">>, <<"RLock", "player">>,
                                    <<"RUnlock", "player">>, <<"RUnlock", "lobby">> >>
      [] op = "ReplacePlayerConn" -> << <<"Lock", "lobby">>, <<"Lock", "player">>,
                                        <<"Unlock", "player">>, <<"Unlock", "lobby">> >>
      [] op = "Disconnect" -> << <<"Lock", "player">>, <<"Unlock", "player">> >>
      [] op = "Alive" -> << <<"RLock", "player">>, <<"RUnlock", "player">> >>

\* the methods each task calls: a handler any of them (ServeHTTP, the request
\* handlers, handleDisconnect), the supervisor State and Delete
\* (lobbyTimeout), the scheduler the readers and writers of the lobby
TaskOps(t) ==
    CASE t = "supervisor" -> {"State", "Delete"}
      [] t = "scheduler" -> {"State", "SetState"}
      [] OTHER -> {"Get", "Register", "Delete", "State", "SetState", "GetPlayerList",
                   "ReplacePlayerConn", "Disconnect", "Alive"}

\* task t holds lock x in the mode it took with step kind k
Holds(t, k, x) ==
    /\ locks[t].op # "none"
    /\ \E i \in 1..locks[t].at :
          /\ LockSteps(locks[t].op)[i] = <<k, x>>
          /\ \A j \in (i + 1)..locks[t].at : LockSteps(locks[t].op)[j][2] # x

\* the step task t takes next
LockAhead(t) ==
    IF locks[t].op = "none" THEN <<"none", "none">>
    ELSE LockSteps(locks[t].op)[locks[t].at + 1]

\* the tasks that keep t from its next step: for Lock, every holder; for
\* RLock, the holder in write mode and, while the lock is held, the writers
\* that wait for it (sync.RWMutex: a blocked Lock excludes new readers)
Blockers(t) ==
    LET k == LockAhead(t)[1]
        x == LockAhead(t)[2]
        held == \E u \in Tasks : Holds(u, "Lock", x) \/ Holds(u, "RLock", x)
    IN CASE k = "Lock" ->
              {u \in Tasks \ {t} : Holds(u, "Lock", x) \/ Holds(u, "RLock", x)}
         [] k = "RLock" ->
              {u \in Tasks \ {t} : \/ Holds(u, "Lock", x)
                                   \/ held /\ LockAhead(u) = <<"Lock", x>>}
         [] OTHER -> {}

\* a task calls a locking method
LockCall(t, op) ==
    /\ locks[t].op = "none"
    /\ op \in TaskOps(t)
    /\ locks' = [locks EXCEPT ![t] = [op |-> op, at |-> 0]]
    /\ UNCHANGED <<registryVars, lobbyVars, handlerVars, conn, sched, rev, lim, nevents>>

\* the task takes or releases the next lock of its method, and returns after
\* the last release
LockStep(t) ==
    /\ locks[t].op # "none"
    /\ Blockers(t) = {}
    /\ locks' = [locks EXCEPT ![t] =
                    IF locks[t].at + 1 = Len(LockSteps(locks[t].op))
                    THEN [op |-> "none", at |-> 0]
                    ELSE [@ EXCEPT !.at = @ + 1]]
    /\ UNCHANGED <<registryVars, lobbyVars, handlerVars, conn, sched, rev, lim, nevents>>

NextLocks ==
    \/ \E t \in Tasks : \E op \in TaskOps(t) : LockCall(t, op)
    \/ \E t \in Tasks : LockStep(t)

SpecLocks == InitSeated /\ [][NextLocks]_vars

\* C38. The registry lock, a lobby lock and a player lock are taken in this
\* order only: a task that takes a lock holds none of the same or a later
\* rank; and no set of tasks is blocked on locks that only tasks of the set
\* can release.
C38_LockOrder ==
    /\ \A t \in Tasks : \A x \in {"registry", "lobby", "player"} :
          (LockAhead(t)[1] \in {"Lock", "RLock"}
              /\ (Holds(t, "Lock", x) \/ Holds(t, "RLock", x)))
          => LockRank(x) < LockRank(LockAhead(t)[2])
    /\ \A S \in SUBSET Tasks :
          S # {} => \E t \in S : Blockers(t) \ S # {} \/ Blockers(t) = {}

\* the supervisor's Delete holds the registry lock and waits for the lobby
\* lock, which a handler's GetPlayerList holds while it waits for the lock of
\* a player that another handler is writing
C38_Witness ==
    /\ Holds("supervisor", "Lock", "registry")
    /\ "handler 1" \in Blockers("supervisor")
    /\ Holds("handler 1", "RLock", "lobby")
    /\ Blockers("handler 1") = {"handler 2"}
    /\ Holds("handler 2", "Lock", "player")

\* ------------------------------------------------- the first owner of a lobby
\* A lobby in Register that two clients have joined and that has no player
\* and no owner yet
InitUnowned ==
    /\ lobbies = {LobbyID}
    /\ state = LobbyStateRegister
    /\ owner = Empty
    /\ maxPlayers = -1
    /\ password = Empty
    /\ quiz = 1
    /\ question = 0
    /\ players = [c \in 1..2 |-> NilPlayer]
    /\ doneCh = FALSE
    /\ conn = [c \in Conns |-> IF c \in 1..2 THEN "open" ELSE "none"]
    /\ http = [c \in Conns |-> IF c \in 1..2
                               THEN [status |-> StatusSwitchingProtocols, code |-> 0]
                               ELSE NoHTTP]
    /\ pc = [c \in Conns |-> IF c \in 1..2 THEN "read" ELSE "idle"]
    /\ pwd = [c \in Conns |-> Empty]
    /\ req = [c \in Conns |-> NoReq]
    /\ loc = [c \in Conns |-> NoLocals]
    /\ out = [c \in Conns |-> IF c \in 1..2 THEN <<Msg("lobby", Empty, "", c, "banner")>>
                              ELSE <<>>]
    /\ sched = <<>>
    /\ rev = NoReview
    /\ lim = NewLimiter
    /\ locks = NoLocks
    /\ nevents = 0
    /\ jwtKey = newLobbyTokenKey(JWTSalt, LobbyID, 0)
    /\ panicked = FALSE
    /\ reg = [IdleReg EXCEPT !.id = LobbyID, !.rt = RegisterTimeout(0), !.res = "ok",
                             !.calls = 1]
    /\ sup = [pc |-> "wait", deadline |-> RegisterTimeout(0)]
    /\ now = 0
    /\ prior = {}

GrantRequests == {Request("register", u, Empty, Empty) : u \in Users}

NextGrant ==
    \/ \E c \in 1..2, r \in GrantRequests : Send(c, r)
    \/ RegisterHandler

SpecGrant == InitUnowned /\ [][NextGrant]_vars

\* the new owner updates of the register round that connection c was sent
OwnerGrants(c) ==
    {i \in 1..Len(out[c]) : /\ out[c][i].type = "playerUpdate"
                            /\ out[c][i].action = "new owner"
                            /\ out[c][i].cause = "register"}

\* C39. When several connections register while the lobby has no owner,
\* exactly one of them is granted ownership: one new owner update is
\* broadcast for the round, and once the register handlers have returned it
\* names the username that Owner() returns.
C39_OneOwnerGranted ==
    /\ \A c \in Conns : Cardinality(OwnerGrants(c)) <= 1
    /\ (\A c \in Conns : pc[c] \in {"idle", "read"}) =>
          \A c \in Conns : \A i \in OwnerGrants(c) : out[c][i].user = owner

\* ------------------------------------------------- register against the start
\* the owner starts the quiz while the clients that joined register
NextRace ==
    \/ Send(1, Request("start", Empty, Empty, Empty))
    \/ \E c \in 2..3, r \in JoinedRequests : Send(c, r)
    \/ \E c \in Conns : RegisterConn(c)
    \/ \E c \in Conns : RegisterExists(c)
    \/ \E c \in Conns : RegisterAdd(c)
    \/ \E c \in Conns : RegisterReply(c)
    \/ \E c \in Conns : RegisterJoin(c)
    \/ \E c \in Conns : RegisterOwner(c)
    \/ StartHandler
    \/ Scheduler

SpecRace == InitJoined /\ [][NextRace]_vars

\* C40. No Player is created after the lobby has left Register: in Quiz and
\* later no step binds a Player to a slot that had none, so every player of
\* the map was in it when the state became Quiz.
C40_NoLatePlayer ==
    [][(state \in {LobbyStateQuiz, LobbyStateAnswers, LobbyStateEnded}) =>
          \A c \in DOMAIN players' :
             players'[c] # NilPlayer => (c \in DOMAIN players /\ players[c] # NilPlayer)]_vars

====
